---- MODULE Spec2Model ----
(***************************************************************************)
(* Model of the documentation index/cache subsystem of code-to-docs:       *)
(*   scripts/doc_index.py     manifest, staleness, build orchestration,    *)
(*                            area matcher, summary safety, publication    *)
(*   scripts/suggest_docs.py  file-level relevance stage                   *)
(* Each subsystem has its own specification over the shared variables:     *)
(*   SpecBuild    build_all_indexes / update_indexes_if_needed             *)
(*   SpecMatch    find_relevant_areas_from_indexes / _process_area_batch   *)
(*   SpecFiles    ask_gemini_for_relevant_files (suggest_docs.py)          *)
(*   SpecSafe     doc_matches_main / get_safe_summaries_to_push            *)
(*   SpecPublish  commit_indexes_to_repo                                   *)
(*   SpecSummary  get_or_generate_summary, save_summary                    *)
(***************************************************************************)
EXTENDS Integers, Sequences, FiniteSets, TLC

(***************************************************************************)
(* Bounds of the model                                                     *)
(***************************************************************************)
MaxRuns == 2      \* build/update runs started in one behaviour
MaxEdits == 1     \* changes made to the documentation tree in one behaviour
MaxIndexes == 6   \* index documents loaded by the area matcher
MaxVerdictLen == 2 \* names in one oracle verdict
MaxPreviews == 11 \* file previews handed to the file-level stage
MaxSumCalls == 3  \* calls of get_or_generate_summary in one behaviour
MaxSumEdits == 1  \* changes made to summarized files in one behaviour
MaxTextLen == 2   \* characters in a text a process writes
MaxRelevant == 2  \* files the oracle selects in one run of suggest_docs
MaxNameLen == 2   \* characters in the name of an area
MaxSaves == 2     \* index documents saved into one index directory

(***************************************************************************)
(* The documentation tree: areas are top-level folders, documents are      *)
(* <<area, file name>> pairs, a document is absent or has one of the       *)
(* byte contents.                                                          *)
(***************************************************************************)
Areas == {"api", "guides"}
AreaSeq == <<"api", "guides">>          \* the areas in sorted order
DocPaths == {<<"guides", "a.md">>, <<"guides", "b.md">>, <<"api", "c.md">>}
Contents == {"v1", "v2"}
Absent == "absent"
\* a document that is listed by rglob and that open() refuses (no read
\* permission, a dangling link, a directory named like a document)
Unreadable == "unreadable"

MAX_WORKERS_INDEX == 5
max_retries == 3

VARIABLES
    \* ---- file system ------------------------------------------------
    files,            \* DocPaths -> Contents \cup {Absent}
    manifestDisk,     \* .doc-index/manifest.json, [folders |-> area -> entry]
    indexDisk,        \* .doc-index/<area>.index.md, area -> text (partial)
    \* ---- one run of build_all_indexes / update_indexes_if_needed ------
    pc,               \* "idle" | "building" | "updating"
    force,            \* the force argument of the run
    manifest,         \* the in-memory manifest of the run
    doc_folders,      \* get_doc_folders() of the run (sorted sequence)
    folders_to_build, \* build: dispatched areas; update: areas still to visit
    wstate,           \* area -> "none" | "pending" | "calling" | "done"
    attempt,          \* area -> attempts made by build_index_for_folder_with_retry
    docs_content,     \* area -> contents read by build_index_for_folder
    index_content,    \* area -> result of the worker (None, Blank or a text)
    results,          \* build: area -> "success" | "empty" (partial)
    loop_rest,        \* update: the folders the loop has still to visit
    updated_folders,  \* update: the folders rebuilt so far
    ret,              \* the value returned by the last run
    \* ---- observation (history) ---------------------------------------
    run,              \* number of runs started
    edits,            \* number of changes made to the tree
    oracleCalls,      \* area -> oracle calls made for it in the current run
    invoked,          \* area -> Index Builder invocations in the current run
    editedInRun,      \* areas changed since the current run started
    \* ---- find_relevant_areas_from_indexes ----------------------------
    mpc,              \* "idle" | "batch" | "done"
    m_diff,           \* the diff argument of the call
    all_folders,      \* list(indexes.keys()): the loaded index names
    batch_idx,        \* start of the current batch in all_folders (0-based)
    m_attempt,        \* attempt of _process_area_batch (0-based)
    all_relevant_areas, \* verdicts gathered so far
    m_ret,            \* the value returned by find_relevant_areas_from_indexes
    batch_log,        \* observation: the last batch and what was returned for it
    m_calls,          \* observation: oracle calls made for the current batch
    \* ---- ask_gemini_for_relevant_files -------------------------------
    fpc,              \* "idle" | "batch" | "done" | "raised"
    file_previews,    \* the file names of the previews, in order
    f_idx,            \* start of the current batch (0-based)
    all_relevant_files, \* file paths gathered so far
    f_ret,            \* the returned list
    f_log,            \* observation: the last batch, the oracle's lines, what was kept
    \* ---- summaries and their source documents -------------------------
    localDoc,         \* doc -> bytes of the local document, or NoDoc
    mainDoc,          \* doc -> bytes of the document on origin/<base>, or NoDoc
    sumEntry,         \* doc -> its summaries-manifest entry: "none" | "no_file" | "entry"
    sumExists,        \* doc -> whether its summary file exists in the cache
    safe_log,         \* observation: results of the last safety computation
    \* ---- commit_indexes_to_repo ---------------------------------------
    penv,             \* the repository the call runs in
    pub,              \* the state of the call
    \* ---- Summary Cache Store ------------------------------------------
    sdocs,            \* path -> content of the documentation file
    sumManifest,      \* summaries_manifest.json on disk
    sumArtifacts,     \* summary file name -> text, or NoArtifact
    manifest_lock,    \* _manifest_lock: "free" or the thread holding it
    sth,              \* thread -> state of its get_or_generate_summary call
    sumCalls,         \* calls started so far
    sumEdits,         \* file changes so far
    \* ---- run_command_safe ----------------------------------------------
    cmd_env,          \* os.environ: the values of GH_TOKEN and GEMINI_API_KEY
    cmd_call,         \* observation: the last call and what the process did
    cmd_result,       \* what the last call handed back: a result or an exception
    \* ---- suggest_docs.py main -----------------------------------------
    main_st,          \* the arguments, environment and locals of main
    main_fx,          \* observation: files written, comments posted, pushes
    \* ---- the index directory as files --------------------------------
    idx_dir,          \* .doc-index: file stem -> text of the file
    idx_log           \* observation: the last save and what was loaded after it

buildVars == <<files, manifestDisk, indexDisk, pc, force, manifest, doc_folders,
               folders_to_build, wstate, attempt, docs_content, index_content,
               results, loop_rest, updated_folders, ret, run, edits,
               oracleCalls, invoked, editedInRun>>

matchVars == <<mpc, m_diff, all_folders, batch_idx, m_attempt, all_relevant_areas,
               m_ret, batch_log, m_calls>>

fileVars == <<fpc, file_previews, f_idx, all_relevant_files, f_ret, f_log>>

docVars == <<localDoc, mainDoc, sumEntry, sumExists>>
pubVars == <<safe_log, penv, pub>>

sumVars == <<sdocs, sumManifest, sumArtifacts, manifest_lock, sth, sumCalls,
             sumEdits>>

cmdVars == <<cmd_env, cmd_call, cmd_result>>

mainVars == <<main_st, main_fx>>

idxVars == <<idx_dir, idx_log>>

vars == <<buildVars, matchVars, fileVars, docVars, pubVars, sumVars, cmdVars,
          mainVars, idxVars>>

\* what the actions of one subsystem leave alone
notBuild == <<matchVars, fileVars, docVars, pubVars, sumVars, cmdVars, mainVars,
               idxVars>>
notMatch == <<buildVars, fileVars, docVars, pubVars, sumVars, cmdVars, mainVars,
               idxVars>>
notFiles == <<buildVars, matchVars, docVars, pubVars, sumVars, cmdVars, mainVars,
               idxVars>>
notPublish == <<buildVars, matchVars, fileVars, sumVars, cmdVars, mainVars,
                 idxVars>>
notSummary == <<buildVars, matchVars, fileVars, docVars, pubVars, cmdVars, mainVars,
                 idxVars>>
notCommand == <<buildVars, matchVars, fileVars, docVars, pubVars, sumVars,
               mainVars, idxVars>>
notMain == <<buildVars, matchVars, fileVars, docVars, pubVars, sumVars, cmdVars,
            idxVars>>
notIndexFiles == <<buildVars, matchVars, fileVars, docVars, pubVars, sumVars,
                  cmdVars, mainVars>>

(***************************************************************************)
(* Helpers                                                                 *)
(***************************************************************************)
Range(s) == {s[i] : i \in 1..Len(s)}

\* hashlib.sha256(bytes).hexdigest(): deterministic and (practically) injective
sha256(bytes) == <<"sha256", bytes>>

\* hash_file(file_path): digest of the file's current bytes
hash_file(file_path) == sha256(files[file_path])

\* get_docs_in_folder(folder): the documents present under the folder
get_docs_in_folder(folder) ==
    {p \in DocPaths : p[1] = folder /\ files[p] # Absent}

\* get_doc_folders(): sorted top-level folders that hold a document
get_doc_folders == SelectSeq(AreaSeq, LAMBDA a : get_docs_in_folder(a) # {})

\* get_folder_doc_hashes(folder): {relative path -> digest}
get_folder_doc_hashes(folder) ==
    [p \in get_docs_in_folder(folder) |-> hash_file(p)]

\* hash_file, line 52: open(file_path, 'rb') raises for such a document
OpenRaises(file_path) == files[file_path] = Unreadable

\* a plausible slip: a failed read is swallowed while the digests are taken
HashesRaiseNever(folder) == FALSE

\* get_folder_doc_hashes, lines 190-197: the only except clause is for
\* ValueError, an OSError of hash_file leaves the function
HashesRaise(folder) == \E p \in get_docs_in_folder(folder) : OpenRaises(p)

\* load_manifest(): the stored manifest, or a new empty one
EmptyManifest == [folders |-> <<>>]
load_manifest == manifestDisk

\* a manifest file that json.load rejects; load_manifest has no try around
\* json.load (lines 152-154), so the exception leaves it
UnparsableManifest == [folders |-> <<>>, unparsable |-> TRUE]
ManifestParses == manifestDisk # UnparsableManifest

\* a plausible slip: compare only the key sets of the two maps
folder_needs_reindex_keys_only(folder, m) ==
    IF folder \notin DOMAIN m.folders
    THEN TRUE
    ELSE DOMAIN m.folders[folder].doc_hashes # DOMAIN get_folder_doc_hashes(folder)

\* folder_needs_reindex(folder, manifest)
folder_needs_reindex(folder, m) ==
    IF folder \notin DOMAIN m.folders
    THEN TRUE
    ELSE LET stored_hashes == m.folders[folder].doc_hashes
             current_hashes == get_folder_doc_hashes(folder)
         IN  stored_hashes # current_hashes

\* folder_needs_reindex, lines 209-215: a folder without an entry is
\* answered before any file is read; otherwise the digests are taken and
\* their exception leaves the function
NeedsReindexRaises(folder, m) ==
    folder \in DOMAIN m.folders /\ HashesRaise(folder)

\* lines 392-397: `force or folder_needs_reindex(...)` is evaluated for each
\* folder outside any try; with force the digests are not taken
SelectRaises(f, m, folders) ==
    ~f /\ \E i \in 1..Len(folders) : NeedsReindexRaises(folders[i], m)

\* a plausible slip: the staleness test is dropped from the selection
SelectFoldersAll(f, m, folders) == folders

\* a plausible slip: the force flag is not consulted
SelectFoldersStaleOnly(f, m, folders) ==
    SelectSeq(folders, LAMBDA a : folder_needs_reindex(a, m))

\* lines 392-397 of build_all_indexes: the areas to build
SelectFolders(f, m, folders) ==
    SelectSeq(folders, LAMBDA a : f \/ folder_needs_reindex(a, m))

None == [kind |-> "None"]
Blank == [kind |-> "blank"]       \* the empty string
NoneMap == [a \in Areas |-> None]
ZeroMap == [a \in Areas |-> 0]
IdleW == [a \in Areas |-> "none"]

\* the areas whose current digest map equals the stored entry, spelled out
\* key by key (independent of folder_needs_reindex)
FreshAreas(m) ==
    {a \in Areas :
        /\ a \in DOMAIN m.folders
        /\ \A p \in DocPaths :
              LET stored == m.folders[a].doc_hashes IN
              IF p[1] = a /\ files[p] # Absent
              THEN p \in DOMAIN stored /\ stored[p] = sha256(files[p])
              ELSE p \notin DOMAIN stored}

(***************************************************************************)
(* Initial state: first run, no manifest, no index, any documentation tree *)
(* (its documents all hold the first content; edits bring in the others)   *)
(***************************************************************************)
InitContent == "v1"

InitBuildWith(tree, on_disk) ==
    /\ files = tree
    /\ manifestDisk = on_disk
    /\ indexDisk = <<>>
    /\ pc = "idle"
    /\ force = FALSE
    /\ manifest = EmptyManifest
    /\ doc_folders = <<>>
    /\ folders_to_build = <<>>
    /\ wstate = IdleW
    /\ attempt = ZeroMap
    /\ docs_content = [a \in Areas |-> <<>>]
    /\ index_content = NoneMap
    /\ results = <<>>
    /\ loop_rest = <<>>
    /\ updated_folders = <<>>
    /\ ret = [status |-> "none"]
    /\ run = 0
    /\ edits = 0
    /\ oracleCalls = ZeroMap
    /\ invoked = ZeroMap
    /\ editedInRun = {}

InitBuildAt(tree) == InitBuildWith(tree, EmptyManifest)

InitBuild == \E tree \in [DocPaths -> {InitContent, Absent}] : InitBuildAt(tree)

\* the build subsystem at rest, for the specifications of the other subsystems
IdleBuild == InitBuildAt([p \in DocPaths |-> Absent])

(***************************************************************************)
(* The environment changes, adds or removes one document                   *)
(***************************************************************************)
EditFile(p, c) ==
    /\ edits < MaxEdits
    /\ files[p] # c
    /\ files' = [files EXCEPT ![p] = c]
    /\ edits' = edits + 1
    /\ editedInRun' = IF pc = "idle" THEN {} ELSE editedInRun \cup {p[1]}
    /\ UNCHANGED <<manifestDisk, indexDisk, pc, force, manifest, doc_folders,
                   folders_to_build, wstate, attempt, docs_content,
                   index_content, results, loop_rest, updated_folders, ret,
                   run, oracleCalls, invoked>>
    /\ UNCHANGED notBuild

(***************************************************************************)
(* build_all_indexes(force), lines 388-412: load, select, dispatch         *)
(***************************************************************************)
StartBuild(f) ==
    /\ pc = "idle"
    /\ run < MaxRuns
    /\ ManifestParses
    /\ ~SelectRaises(f, load_manifest, get_doc_folders)
    /\ LET m == load_manifest
           folders == get_doc_folders
           to_build == SelectFolders(f, m, folders)
       IN  /\ force' = f
           /\ IF to_build = <<>>
              THEN /\ pc' = "idle"
                   /\ ret' = [status |-> "up_to_date", folders |-> folders]
                   /\ wstate' = IdleW
                   /\ invoked' = ZeroMap
                   /\ manifest' = EmptyManifest
                   /\ doc_folders' = <<>>
                   /\ folders_to_build' = <<>>
              ELSE /\ pc' = "building"
                   /\ manifest' = m
                   /\ doc_folders' = folders
                   /\ folders_to_build' = to_build
                   /\ ret' = [status |-> "running"]
                   /\ wstate' = [a \in Areas |->
                                   IF a \in Range(to_build) THEN "pending" ELSE "none"]
                   /\ invoked' = [a \in Areas |->
                                   IF a \in Range(to_build) THEN 1 ELSE 0]
    /\ run' = run + 1
    /\ results' = <<>>
    /\ attempt' = ZeroMap
    /\ index_content' = NoneMap
    /\ docs_content' = [a \in Areas |-> <<>>]
    /\ oracleCalls' = ZeroMap
    /\ editedInRun' = {}
    /\ UNCHANGED <<files, manifestDisk, indexDisk, loop_rest,
                   updated_folders, edits>>
    /\ UNCHANGED notBuild

(***************************************************************************)
(* build_index_for_folder_with_retry / build_index_for_folder: one worker  *)
(***************************************************************************)
\* the index text the oracle produces from the contents it was given
IndexText(folder, content) == [kind |-> "text", area |-> folder, from |-> content]

\* `if index_content:` is false for None and for the empty string
Truthy(x) == x.kind = "text"

Running == {a \in Areas : wstate[a] = "calling"}

\* lines 238-250: a document whose read_text raises is left out of
\* docs_content with a warning
ReadableDocs(folder) == {p \in get_docs_in_folder(folder) : ~OpenRaises(p)}

\* lines 233-253 and 305-312: list and read the documents of the folder.
\* outcome "raise": build_index_for_folder raises before the oracle call, the
\* retry loop counts the attempt; "ok": the listing succeeds and the
\* readable documents are read.
WorkerRead(folder, outcome) ==
    /\ pc \in {"building", "updating"}
    /\ wstate[folder] = "pending"
    /\ Cardinality(Running) < MAX_WORKERS_INDEX
    /\ IF outcome = "raise"
       THEN /\ attempt' = [attempt EXCEPT ![folder] = @ + 1]
            /\ IF attempt[folder] + 1 >= max_retries
               THEN /\ wstate' = [wstate EXCEPT ![folder] = "done"]
                    /\ index_content' = [index_content EXCEPT ![folder] = None]
               ELSE UNCHANGED <<wstate, index_content>>
            /\ UNCHANGED docs_content
       ELSE LET docs == ReadableDocs(folder) IN
            /\ UNCHANGED attempt
            /\ IF docs = {}
               THEN /\ wstate' = [wstate EXCEPT ![folder] = "done"]
                    /\ index_content' = [index_content EXCEPT ![folder] = None]
                    /\ UNCHANGED docs_content
               ELSE /\ wstate' = [wstate EXCEPT ![folder] = "calling"]
                    /\ docs_content' = [docs_content EXCEPT ![folder] =
                                           [p \in docs |-> files[p]]]
                    /\ UNCHANGED index_content
    /\ UNCHANGED <<files, manifestDisk, indexDisk, pc, force, manifest,
                   doc_folders, folders_to_build, results, loop_rest,
                   updated_folders, ret, run, edits, oracleCalls, invoked,
                   editedInRun>>
    /\ UNCHANGED notBuild

\* lines 289-300: the oracle call. "text": an index text comes back;
\* "blank": the text is empty after strip(); "raise": the call raises, the
\* exception is caught and None is returned.
WorkerOracle(folder, outcome) ==
    /\ pc \in {"building", "updating"}
    /\ wstate[folder] = "calling"
    /\ oracleCalls' = [oracleCalls EXCEPT ![folder] = @ + 1]
    /\ wstate' = [wstate EXCEPT ![folder] = "done"]
    /\ index_content' = [index_content EXCEPT ![folder] =
            CASE outcome = "text" -> IndexText(folder, docs_content[folder])
              [] outcome = "blank" -> Blank
              [] OTHER -> None]
    /\ UNCHANGED <<files, manifestDisk, indexDisk, pc, force, manifest,
                   doc_folders, folders_to_build, attempt, docs_content,
                   results, loop_rest, updated_folders, ret, run, edits,
                   invoked, editedInRun>>
    /\ UNCHANGED notBuild

\* a plausible slip: the index document is not written
save_index_skipped(folder, text) == indexDisk

\* save_index(folder, index_content): write the index document
save_index(folder, text) == (folder :> text) @@ indexDisk

\* a plausible slip: the entry replaces the map of folders
WithEntryAlone(m, folder) ==
    [m EXCEPT !.folders = (folder :> [doc_hashes |-> get_folder_doc_hashes(folder)])]

\* a plausible slip: the entry is written without the digests
WithEntryNoHashes(m, folder) ==
    [m EXCEPT !.folders = (folder :> [doc_hashes |-> <<>>]) @@ m.folders]

\* lines 420-423 / 461-464: the manifest entry of a built folder
WithEntry(m, folder) ==
    [m EXCEPT !.folders =
        (folder :> [doc_hashes |-> get_folder_doc_hashes(folder)]) @@ m.folders]

(***************************************************************************)
(* build_all_indexes, lines 414-433: merge one completed future            *)
(***************************************************************************)
\* a plausible slip: the entry is assigned before save_index is called
EntryBeforeSave(m, folder) == WithEntry(m, folder)

\* line 419 comes before lines 420-423: when save_index raises, the entry
\* has not been assigned
AfterSaveRaised(m, folder) == m

\* a plausible slip: a folder that was not built gets an entry all the same
EntryOnFailure(m, folder) == WithEntry(m, folder)

\* lines 425-432: the branches for an empty result and for an exception
\* assign nothing to the manifest
Untouched(m, folder) == m

\* outcome "ok": save_index and get_folder_doc_hashes succeed;
\* "save_raises": save_index raises; "hash_raises": the index document is
\* written and get_folder_doc_hashes raises. Both exceptions are caught by
\* lines 430-432 and recorded as an error for the folder.
MergeOutcomes == {"ok", "save_raises", "hash_raises"}

MergeResult(folder, outcome) ==
    /\ pc = "building"
    /\ wstate[folder] = "done"
    /\ folder \notin DOMAIN results
    /\ IF Truthy(index_content[folder])
       THEN CASE outcome = "ok" ->
                   /\ ~HashesRaise(folder)
                   /\ indexDisk' = save_index(folder, index_content[folder])
                   /\ manifest' = WithEntry(manifest, folder)
                   /\ results' = (folder :> "success") @@ results
              [] outcome = "save_raises" ->
                   /\ results' = (folder :> "error") @@ results
                   /\ manifest' = AfterSaveRaised(manifest, folder)
                   /\ UNCHANGED indexDisk
              [] outcome = "hash_raises" ->
                   /\ indexDisk' = save_index(folder, index_content[folder])
                   /\ results' = (folder :> "error") @@ results
                   /\ manifest' = Untouched(manifest, folder)
       ELSE /\ outcome = "ok"
            /\ results' = (folder :> "empty") @@ results
            /\ manifest' = Untouched(manifest, folder)
            /\ UNCHANGED indexDisk
    /\ UNCHANGED <<files, manifestDisk, pc, force, doc_folders,
                   folders_to_build, wstate, attempt, docs_content,
                   index_content, loop_rest, updated_folders, ret, run,
                   edits, oracleCalls, invoked, editedInRun>>
    /\ UNCHANGED notBuild

\* save_manifest(manifest)
save_manifest(m) == m

\* the run returns: its local variables cease to exist
LocalsDropped ==
    /\ manifest' = EmptyManifest
    /\ doc_folders' = <<>>
    /\ folders_to_build' = <<>>
    /\ wstate' = IdleW
    /\ attempt' = ZeroMap
    /\ docs_content' = [a \in Areas |-> <<>>]
    /\ index_content' = NoneMap
    /\ results' = <<>>
    /\ loop_rest' = <<>>
    /\ updated_folders' = <<>>
    /\ editedInRun' = {}

\* lines 433-439: all futures merged, save the manifest and return
FinishBuild ==
    /\ pc = "building"
    /\ DOMAIN results = Range(folders_to_build)
    /\ manifestDisk' = save_manifest(manifest)
    /\ ret' = [status |-> "built", results |-> results]
    /\ pc' = "idle"
    /\ LocalsDropped
    /\ UNCHANGED <<files, indexDisk, force, run, edits, oracleCalls, invoked>>
    /\ UNCHANGED notBuild

\* __main__ with --build, lines 1294-1298: the result is printed and the
\* script ends; there is no sys.exit, so the exit status is 0 unless
\* build_all_indexes raised (the interpreter then ends with status 1)
cli_exit_status(result) == IF result.status = "raised" THEN 1 ELSE 0

(***************************************************************************)
(* update_indexes_if_needed, lines 449-471                                 *)
(***************************************************************************)
StartUpdate ==
    /\ pc = "idle"
    /\ run < MaxRuns
    /\ ManifestParses
    /\ manifest' = load_manifest
    /\ doc_folders' = get_doc_folders
    /\ loop_rest' = get_doc_folders
    /\ updated_folders' = <<>>
    /\ force' = FALSE
    /\ pc' = "updating"
    /\ run' = run + 1
    /\ ret' = [status |-> "running"]
    /\ wstate' = IdleW
    /\ invoked' = ZeroMap
    /\ results' = <<>>
    /\ folders_to_build' = <<>>
    /\ attempt' = ZeroMap
    /\ index_content' = NoneMap
    /\ docs_content' = [a \in Areas |-> <<>>]
    /\ oracleCalls' = ZeroMap
    /\ editedInRun' = {}
    /\ UNCHANGED <<files, manifestDisk, indexDisk, edits>>
    /\ UNCHANGED notBuild

\* lines 455-458: visit the next folder; a stale one is built, a fresh one skipped
UpdateVisit ==
    /\ pc = "updating"
    /\ loop_rest # <<>>
    /\ wstate[Head(loop_rest)] = "none"
    /\ ~NeedsReindexRaises(Head(loop_rest), manifest)
    /\ LET folder == Head(loop_rest) IN
       IF folder_needs_reindex(folder, manifest)
       THEN /\ wstate' = [wstate EXCEPT ![folder] = "pending"]
            /\ invoked' = [invoked EXCEPT ![folder] = @ + 1]
            /\ UNCHANGED loop_rest
       ELSE /\ loop_rest' = Tail(loop_rest)
            /\ UNCHANGED <<wstate, invoked>>
    /\ UNCHANGED <<files, manifestDisk, indexDisk, pc, force, manifest,
                   doc_folders, folders_to_build, attempt, docs_content,
                   index_content, results, updated_folders, ret, run, edits,
                   oracleCalls, editedInRun>>
    /\ UNCHANGED notBuild

\* lines 459-466: store the result of the folder just built. Nothing
\* catches an exception of save_index or get_folder_doc_hashes here: the
\* run ends with the exception and the manifest is not saved.
UpdateStore(outcome) ==
    /\ pc = "updating"
    /\ loop_rest # <<>>
    /\ wstate[Head(loop_rest)] = "done"
    /\ LET folder == Head(loop_rest) IN
       IF Truthy(index_content[folder]) /\ outcome # "ok"
       THEN /\ indexDisk' = IF outcome = "hash_raises"
                             THEN save_index(folder, index_content[folder])
                             ELSE indexDisk
            /\ ret' = [status |-> "raised"]
            /\ pc' = "idle"
            /\ LocalsDropped
       ELSE /\ outcome = "ok"
            /\ Truthy(index_content[folder]) => ~HashesRaise(folder)
            /\ IF Truthy(index_content[folder])
               THEN /\ indexDisk' = save_index(folder, index_content[folder])
                    /\ manifest' = WithEntry(manifest, folder)
                    /\ updated_folders' = Append(updated_folders, folder)
               ELSE UNCHANGED <<indexDisk, manifest, updated_folders>>
            /\ wstate' = [wstate EXCEPT ![folder] = "none"]
            /\ loop_rest' = Tail(loop_rest)
            /\ UNCHANGED <<pc, doc_folders, folders_to_build, attempt,
                           docs_content, index_content, results, ret,
                           editedInRun>>
    /\ UNCHANGED <<files, manifestDisk, force, run, edits, oracleCalls, invoked>>
    /\ UNCHANGED notBuild

\* lines 468-471: save the manifest if something was rebuilt, and return
FinishUpdate ==
    /\ pc = "updating"
    /\ loop_rest = <<>>
    /\ manifestDisk' = IF updated_folders # <<>> THEN save_manifest(manifest)
                                                ELSE manifestDisk
    /\ ret' = [status |-> "updated", folders |-> updated_folders]
    /\ pc' = "idle"
    /\ LocalsDropped
    /\ UNCHANGED <<files, indexDisk, force, run, edits, oracleCalls, invoked>>
    /\ UNCHANGED notBuild

\* the runs with a file system that does not fail under save_index and
\* get_folder_doc_hashes, while the documentation tree is being edited
NextBuild ==
    \/ \E p \in DocPaths, c \in Contents \cup {Absent} : EditFile(p, c)
    \/ \E f \in BOOLEAN : StartBuild(f)
    \/ \E a \in Areas, o \in {"ok", "raise"} : WorkerRead(a, o)
    \/ \E a \in Areas, o \in {"text", "blank", "raise"} : WorkerOracle(a, o)
    \/ \E a \in Areas : MergeResult(a, "ok")
    \/ FinishBuild
    \/ StartUpdate
    \/ UpdateVisit
    \/ UpdateStore("ok")
    \/ FinishUpdate

\* lines 388 and 449: build_all_indexes(f) or update_indexes_if_needed
\* (f = FALSE) starts on a manifest file that does not parse: load_manifest
\* raises, nothing in the two functions catches it, the run is over
LoadManifestRaises(f) ==
    /\ pc = "idle"
    /\ run < MaxRuns
    /\ ~ManifestParses
    /\ force' = f
    /\ run' = run + 1
    /\ pc' = "idle"
    /\ ret' = [status |-> "raised"]
    /\ LocalsDropped
    /\ oracleCalls' = ZeroMap
    /\ invoked' = ZeroMap
    /\ UNCHANGED <<files, manifestDisk, indexDisk, edits>>
    /\ UNCHANGED notBuild

\* lines 392-397: the selection loop of build_all_indexes(f) takes the
\* digests of a folder that holds an unreadable document; the exception of
\* hash_file leaves folder_needs_reindex and build_all_indexes, no worker has
\* been started and nothing is returned
SelectFoldersRaises(f) ==
    /\ pc = "idle"
    /\ run < MaxRuns
    /\ ManifestParses
    /\ SelectRaises(f, load_manifest, get_doc_folders)
    /\ force' = f
    /\ run' = run + 1
    /\ pc' = "idle"
    /\ ret' = [status |-> "raised", raised_in |-> "build_all_indexes"]
    /\ LocalsDropped
    /\ oracleCalls' = ZeroMap
    /\ invoked' = ZeroMap
    /\ UNCHANGED <<files, manifestDisk, indexDisk, edits>>
    /\ UNCHANGED notBuild

\* line 456: the same exception in the loop of update_indexes_if_needed; the
\* folders rebuilt so far keep their index documents, the manifest is not saved
UpdateVisitRaises ==
    /\ pc = "updating"
    /\ loop_rest # <<>>
    /\ wstate[Head(loop_rest)] = "none"
    /\ NeedsReindexRaises(Head(loop_rest), manifest)
    /\ ret' = [status |-> "raised"]
    /\ pc' = "idle"
    /\ LocalsDropped
    /\ UNCHANGED <<files, manifestDisk, indexDisk, force, run, edits,
                   oracleCalls, invoked>>
    /\ UNCHANGED notBuild

\* the runs on a tree whose documents become unreadable or readable again,
\* with an oracle that always answers
NextBuildIO ==
    \/ \E p \in DocPaths, c \in {Unreadable, InitContent} : EditFile(p, c)
    \/ \E f \in BOOLEAN : StartBuild(f)
    \/ \E f \in BOOLEAN : SelectFoldersRaises(f)
    \/ \E a \in Areas, o \in {"ok"} : WorkerRead(a, o)
    \/ \E a \in Areas, o \in {"text"} : WorkerOracle(a, o)
    \/ \E a \in Areas, o \in {"ok", "hash_raises"} : MergeResult(a, o)
    \/ FinishBuild
    \/ StartUpdate
    \/ UpdateVisit
    \/ UpdateVisitRaises
    \/ \E o \in {"ok", "hash_raises"} : UpdateStore(o)
    \/ FinishUpdate

\* the runs that start on any manifest file, with no other failure
NextBuildCorrupt ==
    \/ \E f \in BOOLEAN : StartBuild(f)
    \/ \E f \in BOOLEAN : LoadManifestRaises(f)
    \/ \E a \in Areas, o \in {"ok"} : WorkerRead(a, o)
    \/ \E a \in Areas, o \in {"text"} : WorkerOracle(a, o)
    \/ \E a \in Areas : MergeResult(a, "ok")
    \/ FinishBuild
    \/ StartUpdate
    \/ UpdateVisit
    \/ UpdateStore("ok")
    \/ FinishUpdate

\* the runs on an unchanging documentation tree, with every failure of the
\* oracle and of the file system
NextBuildFaults ==
    \/ \E f \in BOOLEAN : StartBuild(f)
    \/ \E a \in Areas, o \in {"ok", "raise"} : WorkerRead(a, o)
    \/ \E a \in Areas, o \in {"text", "blank", "raise"} : WorkerOracle(a, o)
    \/ \E a \in Areas, o \in MergeOutcomes : MergeResult(a, o)
    \/ FinishBuild
    \/ StartUpdate
    \/ UpdateVisit
    \/ \E o \in MergeOutcomes : UpdateStore(o)
    \/ FinishUpdate

(***************************************************************************)
(* Relevance matcher, area stage: find_relevant_areas_from_indexes         *)
(***************************************************************************)
BATCH_SIZE == 5
m_max_retries == 3

\* names an index document can have, in the order load_all_indexes yields them
IndexNames == <<"a1", "a2", "a3", "a4", "a5", "a6", "a7", "a8">>
\* a name the oracle makes up: it is the name of no index document
Invented == "ghost"
OracleNames == Range(IndexNames) \cup {Invented}

SeqsUpTo(S, n) == UNION {[1..k -> S] : k \in 0..n}

\* what one oracle call can produce (lines 818-857):
\*   raise       generate_content raises
\*   text_raise  response.text raises
\*   empty       the text is None, empty or blank
\*   malformed   json.loads raises JSONDecodeError
\*   fence_only  the text is a bare code fence: the clean-up raises IndexError
\*   scalar      the JSON is a number, true or null: iterating it raises TypeError
\*   list        the JSON is an array of names (with or without a code fence)
\*   dict        the JSON is an object: iterating it yields its keys
OracleResponses ==
    [kind : {"raise", "text_raise", "empty", "malformed", "fence_only", "scalar"},
     names : {<<>>}]
    \cup [kind : {"list", "dict"}, names : SeqsUpTo(OracleNames, MaxVerdictLen)]

\* the diffs the matcher can be called with
Diffs == {"diff1", "diff2"}
NoDiff == "none"

\* a plausible slip: the slice stops one element early
SliceShort(s, from, size) ==
    SubSeq(s, from + 1, IF from + size - 1 < Len(s) THEN from + size - 1 ELSE Len(s))

\* all_folders[batch_idx:batch_idx + BATCH_SIZE]
Slice(s, from, size) ==
    SubSeq(s, from + 1, IF from + size < Len(s) THEN from + size ELSE Len(s))

\* a plausible slip: the verdict is returned as the oracle gave it
FilterToBatchOff(relevant_areas, batch_folders) == relevant_areas

\* line 860: [f for f in relevant_areas if f in batch_folders]
FilterToBatch(relevant_areas, batch_folders) ==
    SelectSeq(relevant_areas, LAMBDA f : f \in Range(batch_folders))

\* a plausible slip: the gathered verdicts are returned as they are
DedupOff(xs) == xs

\* list(dict.fromkeys(xs)): drop repeats, keep the first occurrence
RECURSIVE Dedup(_)
Dedup(xs) ==
    IF xs = <<>> THEN <<>>
    ELSE LET init == Dedup(SubSeq(xs, 1, Len(xs) - 1))
             last == xs[Len(xs)]
         IN  IF last \in Range(init) THEN init ELSE Append(init, last)

NoList == [kind |-> "None"]
AList(xs) == [kind |-> "list", items |-> xs]

IdleMatch ==
    /\ mpc = "idle"
    /\ m_diff = NoDiff
    /\ all_folders = <<>>
    /\ batch_idx = 0
    /\ m_attempt = 0
    /\ all_relevant_areas = <<>>
    /\ m_ret = [kind |-> "none"]
    /\ batch_log = [batch |-> <<>>, named |-> <<>>, verdict |-> <<>>, final |-> FALSE,
                    skipped |-> <<>>, response |-> "none", offered |-> <<>>]
    /\ m_calls = 0

\* a plausible slip: an empty index set is treated like any other
NoIndexesNever(indexes) == FALSE

\* line 724: `if not indexes`
NoIndexes(indexes) == indexes = <<>>

\* lines 719-735: load the indexes; none: signal the full scan
StartMatch(n, diff) ==
    /\ mpc = "idle"
    /\ m_diff' = diff
    /\ LET indexes == SubSeq(IndexNames, 1, n) IN
       /\ all_folders' = indexes
       /\ IF NoIndexes(indexes)
          THEN /\ mpc' = "done"
               /\ m_ret' = NoList
          ELSE /\ mpc' = "batch"
               /\ m_ret' = [kind |-> "none"]
    /\ batch_idx' = 0
    /\ m_attempt' = 0
    /\ all_relevant_areas' = <<>>
    /\ m_calls' = 0
    /\ UNCHANGED batch_log
    /\ UNCHANGED notMatch

\* _process_area_batch returned `verdict` for the current batch: lines 786-798;
\* `failed`: it gave the batch up ("skipping batch", lines 835, 845, 873, 883),
\* which the log records with the batch number
BatchReturned(named, verdict, failed, kind) ==
    LET batch_folders == Slice(all_folders, batch_idx, BATCH_SIZE)
        batch_num == (batch_idx \div BATCH_SIZE) + 1
        gathered == all_relevant_areas \o verdict
    IN  /\ batch_log' = [batch |-> batch_folders, named |-> named,
                          verdict |-> verdict, final |-> TRUE,
                          skipped |-> IF failed
                                      THEN Append(batch_log.skipped, batch_num)
                                      ELSE batch_log.skipped,
                          response |-> kind,
                          offered |-> Append(batch_log.offered,
                                             [folders |-> batch_folders,
                                              diff |-> m_diff])]
        /\ all_relevant_areas' = gathered
        /\ m_attempt' = 0
        /\ IF batch_idx + BATCH_SIZE < Len(all_folders)
           THEN /\ batch_idx' = batch_idx + BATCH_SIZE
                /\ mpc' = "batch"
                /\ UNCHANGED m_ret
           ELSE /\ UNCHANGED batch_idx
                /\ mpc' = "done"
                /\ m_ret' = AList(Dedup(gathered))

\* a plausible slip: a batch that could not be evaluated counts as relevant
GivenUpWholeBatch(batch_folders) == batch_folders

\* `return []` once the attempts are used up: lines 836, 846, 874, 884
GivenUp(batch_folders) == <<>>

\* a plausible slip: a failed attempt is never repeated
AttemptsLeftNever(tried) == FALSE

\* `if attempt < max_retries - 1`: lines 832, 840, 870, 878
AttemptsLeft(tried) == tried < m_max_retries - 1

\* one attempt of _process_area_batch, lines 816-884; the log keeps the kind
\* of the response (the message printed for it)
BatchAttempt(response) ==
    /\ mpc = "batch"
    /\ m_calls' = IF batch_log.final THEN 1 ELSE m_calls + 1
    /\ IF response.kind \in {"list", "dict"}
       THEN BatchReturned(response.names,
                          FilterToBatch(response.names,
                                        Slice(all_folders, batch_idx, BATCH_SIZE)),
                          FALSE, response.kind)
       ELSE IF AttemptsLeft(m_attempt)
            THEN /\ m_attempt' = m_attempt + 1
                 /\ batch_log' = [batch_log EXCEPT !.final = FALSE,
                                                   !.response = response.kind]
                 /\ UNCHANGED <<mpc, batch_idx, all_relevant_areas, m_ret>>
            ELSE BatchReturned(<<>>,
                               GivenUp(Slice(all_folders, batch_idx, BATCH_SIZE)),
                               TRUE, response.kind)
    /\ UNCHANGED <<all_folders, m_diff>>
    /\ UNCHANGED notMatch

\* the caller takes the result; the matcher can be called again
MatchReset ==
    /\ mpc = "done"
    /\ mpc' = "idle"
    /\ m_diff' = NoDiff
    /\ all_folders' = <<>>
    /\ batch_idx' = 0
    /\ m_attempt' = 0
    /\ all_relevant_areas' = <<>>
    /\ m_ret' = [kind |-> "none"]
    /\ batch_log' = [batch |-> <<>>, named |-> <<>>, verdict |-> <<>>, final |-> FALSE,
                     skipped |-> <<>>, response |-> "none", offered |-> <<>>]
    /\ m_calls' = 0
    /\ UNCHANGED notMatch

NextMatch ==
    \/ \E n \in 0..MaxIndexes, diff \in Diffs : StartMatch(n, diff)
    \/ \E r \in OracleResponses : BatchAttempt(r)
    \/ MatchReset

(***************************************************************************)
(* Relevance matcher, file stage: ask_gemini_for_relevant_files            *)
(* (suggest_docs.py, lines 314-394)                                        *)
(***************************************************************************)
batch_size == 10

DocExts == <<".md", ".rst", ".adoc">>

\* the i-th documentation file found by get_file_content_or_summaries
PreviewName(i) == [stem |-> i, ext |-> DocExts[(i % 3) + 1]]
\* a documentation path that is the name of no preview, and a source file
GhostDoc == [stem |-> 0, ext |-> ".md"]
SourceFile == [stem |-> 0, ext |-> ".py"]

\* the paths the oracle may write on a line: the first and the last preview,
\* a path that was never offered, a source file
LineNames(previews) ==
    {GhostDoc, SourceFile} \cup
    (IF previews = <<>> THEN {} ELSE {previews[1], previews[Len(previews)]})

\* f.endswith('.adoc') or f.endswith('.md') or f.endswith('.rst')
IsDocFile(f) == f.ext \in {".adoc", ".md", ".rst"}

\* line 373: filtered_files
filtered_files(suggested_files) == SelectSeq(suggested_files, IsDocFile)

\* lines 382-388: the loop over all_relevant_files with the set `seen`
RECURSIVE UniqueLoop(_, _, _)
UniqueLoop(rest, seen, unique) ==
    IF rest = <<>> THEN unique
    ELSE LET f == Head(rest) IN
         IF f \notin seen
         THEN UniqueLoop(Tail(rest), seen \cup {f}, Append(unique, f))
         ELSE UniqueLoop(Tail(rest), seen, unique)

unique_files(relevant) == UniqueLoop(relevant, {}, <<>>)

IdleFiles ==
    /\ fpc = "idle"
    /\ file_previews = <<>>
    /\ f_idx = 0
    /\ all_relevant_files = <<>>
    /\ f_ret = [kind |-> "none"]
    /\ f_log = [batch |-> <<>>, named |-> <<>>, kept |-> <<>>]

\* the call: ask_gemini_for_relevant_files(diff, file_previews)
StartFiles(n) ==
    /\ fpc = "idle"
    /\ file_previews' = [i \in 1..n |-> PreviewName(i)]
    /\ f_idx' = 0
    /\ all_relevant_files' = <<>>
    /\ IF n = 0
       THEN /\ fpc' = "done"
            /\ f_ret' = AList(<<>>)
       ELSE /\ fpc' = "batch"
            /\ f_ret' = [kind |-> "none"]
    /\ UNCHANGED f_log
    /\ UNCHANGED notFiles

\* lines 319-380 for one batch, and lines 382-394 after the last one.
\* response.kind: "raise" the oracle call raises (nothing catches it here),
\* "none" the text is NONE, "lines" the text is a list of lines.
FileBatch(response) ==
    /\ fpc = "batch"
    /\ LET batch == Slice(file_previews, f_idx, batch_size)
           kept == IF response.kind = "lines" THEN filtered_files(response.names)
                                              ELSE <<>>
           gathered == all_relevant_files \o kept
       IN  IF response.kind = "raise"
           THEN /\ fpc' = "raised"
                /\ f_ret' = [kind |-> "exception"]
                /\ UNCHANGED <<f_idx, all_relevant_files, f_log>>
           ELSE /\ f_log' = [batch |-> batch, named |-> response.names, kept |-> kept]
                /\ all_relevant_files' = gathered
                /\ IF f_idx + batch_size < Len(file_previews)
                   THEN /\ f_idx' = f_idx + batch_size
                        /\ fpc' = "batch"
                        /\ UNCHANGED f_ret
                   ELSE /\ UNCHANGED f_idx
                        /\ fpc' = "done"
                        /\ f_ret' = AList(unique_files(gathered))
    /\ UNCHANGED file_previews
    /\ UNCHANGED notFiles

\* main takes the result (or dies of the exception); a new run may follow
FilesReset ==
    /\ fpc \in {"done", "raised"}
    /\ fpc' = "idle"
    /\ file_previews' = <<>>
    /\ f_idx' = 0
    /\ all_relevant_files' = <<>>
    /\ f_ret' = [kind |-> "none"]
    /\ f_log' = [batch |-> <<>>, named |-> <<>>, kept |-> <<>>]
    /\ UNCHANGED notFiles

FileResponses(previews) ==
    [kind : {"raise", "none"}, names : {<<>>}]
    \cup [kind : {"lines"}, names : SeqsUpTo(LineNames(previews), MaxVerdictLen)]

NextFiles ==
    \/ \E n \in 0..MaxPreviews : StartFiles(n)
    \/ \E r \in FileResponses(file_previews) : FileBatch(r)
    \/ FilesReset

(***************************************************************************)
(* Which summaries may be published under divergence:                      *)
(* doc_matches_main, get_safe_summaries_to_push (lines 1193-1274)          *)
(***************************************************************************)
Docs == {"d1", "d2"}

\* document bytes: text with LF line ends, the same text with CRLF line
\* ends, another text, and bytes that are not valid UTF-8
BytesLF == <<"A", "LF">>
BytesCRLF == <<"A", "CR", "LF">>
BytesOther == <<"B", "LF">>
BytesInvalid == <<"xFF", "LF">>
DocBytes == {BytesLF, BytesCRLF, BytesOther, BytesInvalid}

\* no such file (locally), no such path on origin/<base>
NoDoc == <<"no such file">>

\* subprocess.run(..., text=True) decodes stdout: invalid bytes raise
Decodable(bytes) == \A i \in 1..Len(bytes) : bytes[i] # "xFF"

\* ... and translates line ends: CR LF and a lone CR become LF
RECURSIVE UniversalNewlines(_)
UniversalNewlines(bytes) ==
    IF bytes = <<>> THEN <<>>
    ELSE IF bytes[1] = "CR"
         THEN IF Len(bytes) >= 2 /\ bytes[2] = "LF"
              THEN <<"LF">> \o UniversalNewlines(SubSeq(bytes, 3, Len(bytes)))
              ELSE <<"LF">> \o UniversalNewlines(Tail(bytes))
         ELSE <<bytes[1]>> \o UniversalNewlines(Tail(bytes))

\* result.stdout.encode(): the decoded text as UTF-8 bytes
EncodedStdout(bytes) == UniversalNewlines(bytes)

\* a plausible slip: a document missing on the shared branch is not safe
doc_matches_main_strict(doc) ==
    IF localDoc[doc] = NoDoc THEN FALSE
    ELSE IF mainDoc[doc] = NoDoc THEN FALSE
    ELSE IF ~Decodable(mainDoc[doc]) THEN FALSE
    ELSE sha256(localDoc[doc]) = sha256(EncodedStdout(mainDoc[doc]))

\* doc_matches_main(doc_file_path, base_branch), lines 1206-1242
doc_matches_main(doc) ==
    IF localDoc[doc] = NoDoc THEN FALSE                 \* lines 1211-1215
    ELSE IF mainDoc[doc] = NoDoc THEN TRUE              \* git show fails: 1231-1234
    ELSE IF ~Decodable(mainDoc[doc]) THEN FALSE          \* exception: 1240-1242
    ELSE sha256(localDoc[doc]) = sha256(EncodedStdout(mainDoc[doc]))

SummaryFile(doc) == <<"summary", doc>>

\* get_safe_summaries_to_push(base_branch), lines 1258-1274
get_safe_summaries_to_push ==
    {SummaryFile(d) : d \in {d \in Docs :
        /\ sumEntry[d] = "entry"          \* an entry with a summary_file
        /\ doc_matches_main(d)
        /\ sumExists[d]}}

IdleSafeLog == [done |-> FALSE, matches |-> [d \in Docs |-> FALSE], safe |-> {}]

\* the safety computation applied to the current documents
ComputeSafe ==
    /\ ~safe_log.done
    /\ pub.ppc = "idle"
    /\ safe_log' = [done |-> TRUE,
                    matches |-> [d \in Docs |-> doc_matches_main(d)],
                    safe |-> get_safe_summaries_to_push]
    /\ UNCHANGED <<docVars, penv, pub>>
    /\ UNCHANGED notPublish

(***************************************************************************)
(* Cache Publisher: commit_indexes_to_repo(content_type), lines 474-701    *)
(***************************************************************************)
IndexFile == <<"index", "guides">>
SummariesManifestFile == <<"summaries_manifest">>
OtherFile == <<"other">>          \* a staged path outside the cache directory
CacheFiles == {IndexFile, SummariesManifestFile} \cup {SummaryFile(d) : d \in Docs}

IdlePub ==
    [ppc |-> "idle", content_type |-> "indexes", cwd |-> "orig", branch |-> "pr",
     stashed |-> FALSE, status_seen |-> FALSE, status_stdout |-> {},
     compared |-> "none",
     branch_up_to_date |-> TRUE, add_all |-> FALSE, files_to_add |-> {},
     staged |-> {}, staged_all |-> FALSE, staged_seen |-> FALSE,
     staged_stdout |-> {},
     commits |-> 0, pr_commit |-> {}, base_commit |-> {}, pushed |-> FALSE,
     pushed_files |-> {}, ret |-> "none", raised |-> FALSE, failed |-> {},
     ignored |-> {}]

\* a plausible slip: only subprocess.CalledProcessError is handled
CaughtProcessErrorOnly(exc) == exc = "CalledProcessError"

\* lines 688-701: the two except clauses
Caught(exc) == exc \in {"CalledProcessError", "Exception"}

\* a normal return: os.chdir(original_cwd); return value
Return(st, value) == [st EXCEPT !.ppc = "done", !.cwd = "orig", !.ret = value]

\* a step raises: the handler restores the directory and returns False
Fail(st, exc, step) ==
    IF Caught(exc)
    THEN [st EXCEPT !.ppc = "done", !.cwd = "orig", !.ret = "False",
                    !.failed = @ \cup {step}]
    ELSE [st EXCEPT !.ppc = "done", !.raised = TRUE, !.failed = @ \cup {step}]

\* a step run with check=False fails: nothing is raised, the call goes on
Ignore(st, step) == [st EXCEPT !.ignored = @ \cup {step}]

PubFrame == UNCHANGED <<docVars, safe_log, penv>> /\ UNCHANGED notPublish

\* lines 486-510: no cache directory: return False; else change directory
PubCall(ct, exists) ==
    /\ pub.ppc = "idle"
    /\ pub' = IF ~exists
              THEN [pub EXCEPT !.ppc = "done", !.ret = "False", !.content_type = ct,
                               !.branch = IF penv.on_base THEN "base" ELSE "pr"]
              ELSE [pub EXCEPT !.ppc = "status", !.cwd = "repo", !.content_type = ct,
                               !.branch = IF penv.on_base THEN "base" ELSE "pr"]
    /\ PubFrame

\* a plausible slip: the status test is dropped
StatusEmptyNever(stdout) == FALSE

\* line 518: not status_result.stdout.strip()
StatusEmpty(stdout) == stdout = {}

\* lines 513-521: git status --porcelain <cache dir> (check=False)
PubStatus(ok) ==
    /\ pub.ppc = "status"
    /\ LET stdout == IF ok THEN penv.changed ELSE {}
           st == [pub EXCEPT !.status_seen = TRUE, !.status_stdout = stdout]
       IN  pub' = IF StatusEmpty(stdout)
                  THEN Return(st, "False")
                  ELSE [st EXCEPT !.ppc = "compare"]
    /\ PubFrame

\* a plausible slip: area indexes are treated like summaries under divergence
RefuseIndexesNever(ct) == FALSE

\* line 560: if content_type == "indexes"
RefuseIndexes(ct) == ct = "indexes"

\* lines 542-546: the default is "up to date"; it is replaced only when
\* both git merge-base and git rev-parse succeeded
BranchUpToDate(mb_ok, mh_ok) ==
    IF mb_ok /\ mh_ok THEN ~penv.diverged ELSE TRUE

\* lines 525-587 up to the add commands: fetch, merge-base, rev-parse
\* (all check=False), then the choice of what to add
PubCompare(mb_ok, mh_ok) ==
    /\ pub.ppc = "compare"
    /\ LET up == BranchUpToDate(mb_ok, mh_ok)
           st == [pub EXCEPT !.compared = IF mb_ok /\ mh_ok THEN "obtained"
                                                             ELSE "failed",
                             !.branch_up_to_date = up]
           safe_summaries == get_safe_summaries_to_push
       IN  pub' = IF up
                  THEN [st EXCEPT !.add_all = TRUE, !.ppc = "add_all"]
                  ELSE IF RefuseIndexes(pub.content_type)
                  THEN Return(st, "False")
                  ELSE IF safe_summaries = {}
                  THEN Return(st, "False")
                  ELSE [st EXCEPT !.ppc = "add_safe",
                                  !.files_to_add = safe_summaries
                                                   \cup {SummariesManifestFile}]
    /\ PubFrame

\* line 555: git add <cache dir> (check=True)
PubAddAll(ok) ==
    /\ pub.ppc = "add_all"
    /\ pub' = IF ok
              THEN [pub EXCEPT !.staged = penv.changed, !.staged_all = TRUE,
                               !.ppc = "staged"]
              ELSE Fail(pub, "CalledProcessError", "add")
    /\ PubFrame

\* lines 579-583: git add of each safe summary and of the summaries
\* manifest (check=False): `added` are the paths whose add succeeded
PubAddSafe(added) ==
    /\ pub.ppc = "add_safe"
    /\ added \subseteq pub.files_to_add
    /\ LET st == IF added = pub.files_to_add THEN pub ELSE Ignore(pub, "add")
       IN  pub' = [st EXCEPT !.staged = penv.changed \cap added, !.ppc = "staged"]
    /\ PubFrame

\* line 594: not staged_result.stdout.strip()
NothingStaged(stdout) == stdout = {}

\* lines 590-597: git diff --cached --name-only lists the whole index
PubStagedCheck ==
    /\ pub.ppc = "staged"
    /\ LET stdout == pub.staged \cup (IF penv.other_staged THEN {OtherFile} ELSE {})
           st == [pub EXCEPT !.staged_seen = TRUE, !.staged_stdout = stdout]
       IN  pub' = IF NothingStaged(stdout)
                  THEN Return(st, "False")
                  ELSE [st EXCEPT !.ppc = "commit"]
    /\ PubFrame

\* lines 600-604: git commit (check=True); it can succeed only with
\* something in the index
PubCommit(ok) ==
    /\ pub.ppc = "commit"
    /\ ok => (pub.staged \cup (IF penv.other_staged THEN {OtherFile} ELSE {})) # {}
    /\ pub' = IF ok
              THEN [pub EXCEPT !.pr_commit = pub.staged \cup
                                   (IF penv.other_staged THEN {OtherFile} ELSE {}),
                               !.commits = @ + 1, !.staged = {},
                               !.ppc = "revparse"]
              ELSE Fail(pub, "CalledProcessError", "commit")
    /\ PubFrame

\* lines 610-623: git rev-parse --abbrev-ref HEAD (check=True)
PubRevParse(ok) ==
    /\ pub.ppc = "revparse"
    /\ pub' = IF ~ok THEN Fail(pub, "CalledProcessError", "rev-parse")
              ELSE IF penv.on_base THEN [pub EXCEPT !.ppc = "push"]
              ELSE [pub EXCEPT !.ppc = "backup"]
    /\ PubFrame

\* lines 628-635: copy the cache directory aside, then git stash
\* (check=False). repo_root is bound only when DOCS_SUBFOLDER is set
\* (line 502): without it line 629 raises NameError.
PubBackup(copy_ok, stash_ok) ==
    /\ pub.ppc = "backup"
    /\ pub' = IF ~penv.docs_subfolder THEN Fail(pub, "Exception", "repo_root")
              ELSE IF ~copy_ok THEN Fail(pub, "Exception", "copy")
              ELSE [(IF stash_ok THEN pub ELSE Ignore(pub, "stash"))
                        EXCEPT !.stashed = stash_ok, !.ppc = "checkout_base"]
    /\ PubFrame

\* lines 638-640: git fetch (check=False), git checkout -B <base> (check=True)
PubCheckoutBase(ok) ==
    /\ pub.ppc = "checkout_base"
    /\ pub' = IF ok THEN [pub EXCEPT !.branch = "base", !.ppc = "restore"]
              ELSE Fail(pub, "CalledProcessError", "checkout")
    /\ PubFrame

\* lines 643-646: put the saved cache directory over the base branch's one
PubRestore(ok) ==
    /\ pub.ppc = "restore"
    /\ pub' = IF ok THEN [pub EXCEPT !.ppc = "add_base"]
              ELSE Fail(pub, "Exception", "copy")
    /\ PubFrame

\* the cache files whose saved copy differs from the base branch's version
BaseDiff == penv.changed \cup penv.base_extra

\* lines 649-654: add again on the base branch, all or the chosen paths
PubAddBase(ok, added) ==
    /\ pub.ppc = "add_base"
    /\ IF pub.add_all
       THEN /\ added = CacheFiles
            /\ pub' = IF ok
                      THEN [pub EXCEPT !.staged = BaseDiff, !.staged_all = TRUE,
                                       !.ppc = "commit_base"]
                      ELSE Fail(pub, "CalledProcessError", "add")
       ELSE /\ ok
            /\ added \subseteq pub.files_to_add
            /\ LET st == IF added = pub.files_to_add THEN pub ELSE Ignore(pub, "add")
               IN  pub' = [st EXCEPT !.staged = BaseDiff \cap added,
                                     !.ppc = "commit_base"]
    /\ PubFrame

\* lines 655-661: git commit on the base branch (check=False: "may fail if
\* no changes")
PubCommitBase(ok) ==
    /\ pub.ppc = "commit_base"
    /\ ok => pub.staged # {}
    /\ pub' = IF ok
              THEN [pub EXCEPT !.base_commit = pub.staged, !.commits = @ + 1,
                               !.staged = {}, !.ppc = "push"]
              ELSE [Ignore(pub, "commit") EXCEPT !.ppc = "push"]
    /\ PubFrame

\* lines 665-668 / 680-683: git push origin <base> (check=True)
PubPush(ok) ==
    /\ pub.ppc = "push"
    /\ pub' = IF ~ok THEN Fail(pub, "CalledProcessError", "push")
              ELSE LET st == [pub EXCEPT !.pushed = TRUE,
                                         !.pushed_files =
                                             IF penv.on_base THEN pub.pr_commit
                                                             ELSE pub.base_commit]
                   IN  IF penv.on_base THEN Return(st, "True")
                       ELSE [st EXCEPT !.ppc = "checkout_back"]
    /\ PubFrame

\* lines 671-686: git checkout <branch> (check=True), git stash pop
\* (check=False), return True
PubCheckoutBack(ok, pop_ok) ==
    /\ pub.ppc = "checkout_back"
    /\ pub' = IF ~ok THEN Fail(pub, "CalledProcessError", "checkout")
              ELSE LET st == IF pop_ok THEN pub ELSE Ignore(pub, "stash pop")
                   IN  Return([st EXCEPT !.branch = "pr",
                                         !.stashed = pub.stashed /\ ~pop_ok], "True")
    /\ PubFrame

NextPublish ==
    \/ \E ct \in {"indexes", "summaries"}, exists \in BOOLEAN : PubCall(ct, exists)
    \/ \E ok \in BOOLEAN : PubStatus(ok)
    \/ \E mb_ok \in BOOLEAN, mh_ok \in BOOLEAN : PubCompare(mb_ok, mh_ok)
    \/ \E ok \in BOOLEAN : PubAddAll(ok)
    \/ \E added \in SUBSET CacheFiles : PubAddSafe(added)
    \/ PubStagedCheck
    \/ \E ok \in BOOLEAN : PubCommit(ok)
    \/ \E ok \in BOOLEAN : PubRevParse(ok)
    \/ \E copy_ok \in BOOLEAN, stash_ok \in BOOLEAN : PubBackup(copy_ok, stash_ok)
    \/ \E ok \in BOOLEAN : PubCheckoutBase(ok)
    \/ \E ok \in BOOLEAN : PubRestore(ok)
    \/ \E ok \in BOOLEAN, added \in SUBSET CacheFiles : PubAddBase(ok, added)
    \/ \E ok \in BOOLEAN : PubCommitBase(ok)
    \/ \E ok \in BOOLEAN : PubPush(ok)
    \/ \E ok \in BOOLEAN, pop_ok \in BOOLEAN : PubCheckoutBack(ok, pop_ok)

NextSafe == ComputeSafe

\* documents, summaries and repository at rest
IdleDocs ==
    /\ localDoc = [d \in Docs |-> NoDoc]
    /\ mainDoc = [d \in Docs |-> NoDoc]
    /\ sumEntry = [d \in Docs |-> "none"]
    /\ sumExists = [d \in Docs |-> FALSE]

IdlePublish ==
    /\ safe_log = IdleSafeLog
    /\ penv = [changed |-> {}, base_extra |-> {}, other_staged |-> FALSE,
               on_base |-> FALSE, docs_subfolder |-> FALSE, diverged |-> FALSE]
    /\ pub = IdlePub

(***************************************************************************)
(* Summary Cache Store: load_summaries_manifest, get_summary_filename,     *)
(* load_cached_summary, save_summary, get_or_generate_summary              *)
(* (doc_index.py, lines 1032-1177)                                         *)
(***************************************************************************)
SThreads == {"t1", "t2"}

\* file paths as sequences of segments and separators; the first two differ
\* only in a separator that get_summary_filename rewrites
SumPaths == {<<"guides", "/", "a.md">>, <<"guides", "-", "a.md">>,
             <<"api", "/", "c.md">>}

\* lines 1061-1065: "/" and "\" become "-", ".summary.md" is appended
get_summary_filename(file_path) ==
    [i \in 1..Len(file_path) |->
        IF file_path[i] \in {"/", "\\"} THEN "-" ELSE file_path[i]]
    \o <<".summary.md">>

SumNames == {get_summary_filename(p) : p \in SumPaths}

NoArtifact == <<"no such file">>
EmptyText == <<>>
NoHash == <<"no hash">>

\* what generate_func makes of a file's content
SummaryOf(file_path, content) == <<"summary", file_path, content>>

\* Python truth of a summary text / of the result of load_cached_summary
SumTruthy(text) == text # EmptyText /\ text # NoArtifact

NoEntry == [present |-> FALSE, hash |-> NoHash, summary_file |-> <<>>]
EmptyFiles == [p \in SumPaths |-> NoEntry]

\* lines 1032-1046: a manifest that json.load rejects with JSONDecodeError
\* is read as an empty one
load_summaries_manifest ==
    IF sumManifest.ok THEN sumManifest.files ELSE EmptyFiles

\* line 1040: the file is opened as text; bytes that are not text of the
\* default encoding make json.load raise UnicodeDecodeError, which the
\* `except json.JSONDecodeError` of line 1041 does not catch
ManifestLoadRaises == ~sumManifest.decodes

\* a plausible slip: the stored digest is compared with the digest of the
\* path instead of the digest of the file
CachedSummaryHashOfPath(file_path, manifest_files, artifacts, docs) ==
    IF ~manifest_files[file_path].present THEN NoArtifact
    ELSE IF sha256(file_path) # manifest_files[file_path].hash THEN NoArtifact
    ELSE artifacts[get_summary_filename(file_path)]

\* lines 1068-1110, on a given cache state: None (NoArtifact) when there is
\* no entry, the digests differ or the summary file is missing
CachedSummary(file_path, manifest_files, artifacts, docs) ==
    IF ~manifest_files[file_path].present THEN NoArtifact
    ELSE IF sha256(docs[file_path]) # manifest_files[file_path].hash THEN NoArtifact
    ELSE artifacts[get_summary_filename(file_path)]

load_cached_summary(file_path) ==
    CachedSummary(file_path, load_summaries_manifest, sumArtifacts, sdocs)

\* the entry is present and its digest is the file's current digest
EntryValid(file_path) ==
    /\ load_summaries_manifest[file_path].present
    /\ load_summaries_manifest[file_path].hash = sha256(sdocs[file_path])

IdleThread ==
    [pc |-> "idle", path |-> <<>>, content |-> "", summary |-> EmptyText,
     manifest |-> EmptyFiles, calls |-> 0, ret |-> NoArtifact,
     entry_valid |-> FALSE, artifact |-> NoArtifact, following |-> NoArtifact]

IdleSummary ==
    /\ sdocs = [p \in SumPaths |-> InitContent]
    /\ sumManifest = [ok |-> TRUE, decodes |-> TRUE, files |-> EmptyFiles]
    /\ sumArtifacts = [n \in SumNames |-> NoArtifact]
    /\ manifest_lock = "free"
    /\ sth = [t \in SThreads |-> IdleThread]
    /\ sumCalls = 0
    /\ sumEdits = 0

SumFrame == UNCHANGED notSummary

\* a documentation file is changed on disk
SumEdit(p, c) ==
    /\ sumEdits < MaxSumEdits
    /\ sdocs[p] # c
    /\ sdocs' = [sdocs EXCEPT ![p] = c]
    /\ sumEdits' = sumEdits + 1
    /\ UNCHANGED <<sumManifest, sumArtifacts, manifest_lock, sth, sumCalls>>
    /\ SumFrame

\* a thread calls get_or_generate_summary(file_path, content, generate_func)
\* with the content it has read; threads work on different files
SumCall(t, p) ==
    /\ sth[t].pc = "idle"
    /\ sumCalls < MaxSumCalls
    /\ \A u \in SThreads : sth[u].path # p
    /\ sth' = [sth EXCEPT ![t] = [IdleThread EXCEPT !.pc = "load", !.path = p,
                                                    !.content = sdocs[p]]]
    /\ sumCalls' = sumCalls + 1
    /\ UNCHANGED <<sdocs, sumManifest, sumArtifacts, manifest_lock, sumEdits>>
    /\ SumFrame

\* lines 1166-1168: cached = load_cached_summary(...); if cached: return
SumLoad(t) ==
    /\ sth[t].pc = "load"
    /\ LET cached == load_cached_summary(sth[t].path)
           seen == [sth[t] EXCEPT !.entry_valid = EntryValid(sth[t].path),
                                  !.artifact =
                                      sumArtifacts[get_summary_filename(sth[t].path)]]
       IN  sth' = [sth EXCEPT ![t] =
                    IF ManifestLoadRaises
                    THEN [sth[t] EXCEPT !.pc = "load_raised"]
                    ELSE IF SumTruthy(cached)
                    THEN [seen EXCEPT !.pc = "done", !.ret = cached]
                    ELSE [seen EXCEPT !.pc = "generate"]]
    /\ UNCHANGED <<sdocs, sumManifest, sumArtifacts, manifest_lock, sumCalls,
                   sumEdits>>
    /\ SumFrame

\* lines 1171-1177: summary = generate_func(file_path, content); an empty
\* summary is returned without being saved; an exception is not caught
SumGenerate(t, outcome) ==
    /\ sth[t].pc = "generate"
    /\ LET called == [sth[t] EXCEPT !.calls = @ + 1]
       IN  sth' = [sth EXCEPT ![t] =
                    CASE outcome = "text" ->
                           [called EXCEPT !.pc = "write",
                                          !.summary = SummaryOf(sth[t].path,
                                                                sth[t].content)]
                      [] outcome = "empty" ->
                           [called EXCEPT !.pc = "done", !.ret = EmptyText]
                      [] outcome = "raise" ->
                           [called EXCEPT !.pc = "raised"]]
    /\ UNCHANGED <<sdocs, sumManifest, sumArtifacts, manifest_lock, sumCalls,
                   sumEdits>>
    /\ SumFrame

\* save_summary, lines 1126-1131: the summary file is written
SumWrite(t) ==
    /\ sth[t].pc = "write"
    /\ sumArtifacts' = [sumArtifacts EXCEPT
                           ![get_summary_filename(sth[t].path)] = sth[t].summary]
    /\ sth' = [sth EXCEPT ![t].pc = "lock"]
    /\ UNCHANGED <<sdocs, sumManifest, manifest_lock, sumCalls, sumEdits>>
    /\ SumFrame

\* a plausible slip: the manifest is updated without the lock
LockFreeAlways(lock) == TRUE

\* line 1134: with _manifest_lock
LockFree(lock) == lock = "free"

\* save_summary, lines 1134-1135: take the lock, load the manifest; an
\* exception leaves the `with` block, which releases the lock
SumLockLoad(t) ==
    /\ sth[t].pc = "lock"
    /\ LockFree(manifest_lock)
    /\ IF ManifestLoadRaises
       THEN /\ UNCHANGED manifest_lock
            /\ sth' = [sth EXCEPT ![t].pc = "load_raised"]
       ELSE /\ manifest_lock' = t
            /\ sth' = [sth EXCEPT ![t].pc = "store",
                                  ![t].manifest = load_summaries_manifest]
    /\ UNCHANGED <<sdocs, sumManifest, sumArtifacts, sumCalls, sumEdits>>
    /\ SumFrame

\* a plausible slip: the entry is stored without the file's digest
WithSummaryEntryNoHash(manifest_files, file_path, docs) ==
    [manifest_files EXCEPT ![file_path] =
        [present |-> TRUE, hash |-> NoHash,
         summary_file |-> get_summary_filename(file_path)]]

\* lines 1137-1147: the entry gets the digest of the file as it is now
WithSummaryEntry(manifest_files, file_path, docs) ==
    [manifest_files EXCEPT ![file_path] =
        [present |-> TRUE, hash |-> sha256(docs[file_path]),
         summary_file |-> get_summary_filename(file_path)]]

\* save_summary, lines 1137-1149, and the return of line 1177: the entry
\* is set, the manifest is written, the lock is released
SumStoreUnlock(t) ==
    /\ sth[t].pc = "store"
    /\ LET m == WithSummaryEntry(sth[t].manifest, sth[t].path, sdocs)
       IN  /\ sumManifest' = [ok |-> TRUE, decodes |-> TRUE, files |-> m]
           /\ sth' = [sth EXCEPT ![t] =
                        [@ EXCEPT !.pc = "done", !.manifest = m,
                                  !.ret = sth[t].summary,
                                  !.following =
                                      CachedSummary(sth[t].path, m, sumArtifacts,
                                                    sdocs)]]
    /\ manifest_lock' = "free"
    /\ UNCHANGED <<sdocs, sumArtifacts, sumCalls, sumEdits>>
    /\ SumFrame

\* the caller takes the result (or the exception) and may call again
SumReturn(t) ==
    /\ sth[t].pc \in {"done", "raised", "load_raised"}
    /\ sth' = [sth EXCEPT ![t] = IdleThread]
    /\ UNCHANGED <<sdocs, sumManifest, sumArtifacts, manifest_lock, sumCalls,
                   sumEdits>>
    /\ SumFrame

NextSummary ==
    \/ \E p \in SumPaths, c \in Contents : SumEdit(p, c)
    \/ \E t \in SThreads, p \in SumPaths : SumCall(t, p)
    \/ \E t \in SThreads : SumLoad(t)
    \/ \E t \in SThreads, outcome \in {"text", "empty", "raise"} :
          SumGenerate(t, outcome)
    \/ \E t \in SThreads : SumWrite(t)
    \/ \E t \in SThreads : SumLockLoad(t)
    \/ \E t \in SThreads : SumStoreUnlock(t)
    \/ \E t \in SThreads : SumReturn(t)

(***************************************************************************)
(* security_utils.py: sanitize_output (lines 15-48) and run_command_safe   *)
(* (lines 51-92)                                                           *)
(***************************************************************************)
\* texts are sequences of characters; the two secrets overlap in "h"
TextChars == {"g", "h", "k"}
Texts == SeqsUpTo(TextChars, MaxTextLen)
NoneText == <<"None">>
Unset == <<>>
GhTokens == {Unset, <<"g", "h">>}
GeminiKeys == {Unset, <<"h", "k">>}
\* the command lines: without a secret, with the token in a URL
Commands == {<<"k">>, <<"g", "h">>}

TokenMark == "***TOKEN***"

\* str.replace(token, "***TOKEN***") for a non-empty token: the occurrences
\* are replaced from the left, without overlap
RECURSIVE Replace(_, _)
Replace(text, token) ==
    IF text = <<>> THEN <<>>
    ELSE IF Len(token) <= Len(text) /\ SubSeq(text, 1, Len(token)) = token
         THEN <<TokenMark>> \o Replace(SubSeq(text, Len(token) + 1, Len(text)), token)
         ELSE <<Head(text)>> \o Replace(Tail(text), token)

\* lines 26-48: nothing to do for None and ""; GH_TOKEN is replaced first,
\* then GEMINI_API_KEY, each only when it is set
sanitize_output(text) ==
    IF text = NoneText \/ text = <<>> THEN text
    ELSE LET no_gh == IF cmd_env.GH_TOKEN # Unset
                      THEN Replace(text, cmd_env.GH_TOKEN) ELSE text
         IN  IF cmd_env.GEMINI_API_KEY # Unset
             THEN Replace(no_gh, cmd_env.GEMINI_API_KEY) ELSE no_gh

\* lines 85-86: sanitize_output(str(e.stderr)) if e.stderr else None
SanitizedOrNone(text) ==
    IF text = NoneText \/ text = <<>> THEN NoneText ELSE sanitize_output(text)

\* what subprocess.run does: the process exits with a status and two
\* texts, or subprocess.run raises (the program is missing, a time-out)
\* with a message
ProcessOutcomes ==
    [kind : {"exit"}, returncode : {0, 1}, stdout : Texts, stderr : Texts]
    \cup [kind : {"raise"}, returncode : {0}, stdout : {<<>>}, stderr : Texts]

NoCall == [cmd |-> <<>>, check |-> FALSE,
           outcome |-> [kind |-> "none", returncode |-> 0, stdout |-> <<>>,
                        stderr |-> <<>>]]
NoResult == [kind |-> "none", stdout |-> NoneText, stderr |-> NoneText,
             args |-> <<>>]

IdleCommand ==
    /\ cmd_env = [GH_TOKEN |-> Unset, GEMINI_API_KEY |-> Unset]
    /\ cmd_call = NoCall
    /\ cmd_result = NoResult

\* lines 63-92.  The result of subprocess.run is returned as it is unless
\* check is set and the status is not 0; then CalledProcessError is raised
\* with the two texts sanitized (and sanitized again by the handler of
\* lines 83-87), its args being (returncode, cmd).  Any other exception
\* gets its args replaced by their sanitized strings.
run_command_safe(cmd, check, outcome) ==
    IF outcome.kind = "raise"
    THEN [kind |-> "Exception", stdout |-> NoneText, stderr |-> NoneText,
          args |-> <<sanitize_output(outcome.stderr)>>]
    ELSE IF check /\ outcome.returncode # 0
    THEN [kind |-> "CalledProcessError",
          stdout |-> SanitizedOrNone(sanitize_output(outcome.stdout)),
          stderr |-> SanitizedOrNone(sanitize_output(outcome.stderr)),
          args |-> <<cmd>>]
    ELSE [kind |-> "returned", stdout |-> outcome.stdout,
          stderr |-> outcome.stderr, args |-> <<>>]

\* one call of run_command_safe
RunCommandSafe(cmd, check, outcome) ==
    /\ cmd_result = NoResult
    /\ cmd_call' = [cmd |-> cmd, check |-> check, outcome |-> outcome]
    /\ cmd_result' = run_command_safe(cmd, check, outcome)
    /\ UNCHANGED cmd_env
    /\ UNCHANGED notCommand

\* the caller has taken the result or handled the exception
CommandTaken ==
    /\ cmd_result # NoResult
    /\ cmd_call' = NoCall
    /\ cmd_result' = NoResult
    /\ UNCHANGED cmd_env
    /\ UNCHANGED notCommand

NextCommand ==
    \/ \E cmd \in Commands, check \in BOOLEAN, outcome \in ProcessOutcomes :
          RunCommandSafe(cmd, check, outcome)
    \/ CommandTaken

(***************************************************************************)
(* suggest_docs.py main (lines 857-1002): modes, dry run, what is written, *)
(* commented and pushed                                                    *)
(***************************************************************************)
\* words a triggering comment may hold, in the spellings users type
CommentWords == {"[review-docs]", "[Update-Docs]", "lgtm"}
CommentBodies == SUBSET CommentWords

\* str.lower() on the words
Lower(word) == IF word = "[Update-Docs]" THEN "[update-docs]" ELSE word

\* `"[...]" in comment_body.lower()`
InLower(command, comment_body) == \E w \in comment_body : Lower(w) = command

\* line 866
review_mode(comment_body) == InLower("[review-docs]", comment_body)

\* a plausible slip: update mode is on whatever the comment says
update_mode_always(comment_body) == TRUE

\* lines 867-871: the command, or the fallback when no command is present
update_mode(comment_body) ==
    LET asked == InLower("[update-docs]", comment_body) IN
    IF ~review_mode(comment_body) /\ ~asked THEN TRUE ELSE asked

\* the files the oracle may select, and PR_NUMBER
MainFiles == [i \in 1..MaxRelevant |-> <<"docs", i, ".md">>]
PrNumbers == {"unknown", "7"}

IdleMainSt ==
    [pc |-> "idle", comment_body |-> {}, dry_run |-> FALSE,
     pr_number |-> "unknown", review_mode |-> FALSE, update_mode |-> FALSE,
     relevant_files |-> <<>>, files_with_content |-> <<>>,
     modified_files |-> <<>>]

NoEffects ==
    [written |-> {}, comments |-> <<>>, pushed |-> FALSE, pr_opened |-> FALSE]

IdleMain == main_st = IdleMainSt /\ main_fx = NoEffects

\* post_review_comment, lines 633-744: nothing is posted without a PR number
\* or when gh (or the token) fails; otherwise one comment is posted, the
\* "no updates needed" one for an empty list
post_review_comment(fx, files_with_content, pr_number, include_full_content, gh) ==
    IF pr_number = "unknown" \/ gh # "ok"
    THEN fx
    ELSE [fx EXCEPT !.comments =
             Append(@, [files |-> files_with_content,
                        full |-> include_full_content /\ files_with_content # <<>>])]

\* lines 858-896: arguments, modes, diff, docs environment, previews.
\* early: "no_diff", "setup_fails", "no_previews" return at lines 874-876,
\* 887-889, 894-896; "go" reaches the oracle
MainStart(comment_body, dry_run, pr_number, early) ==
    /\ main_st.pc = "idle"
    /\ main_st' = [IdleMainSt EXCEPT
            !.pc = IF early = "go" THEN "ask" ELSE "done",
            !.comment_body = comment_body,
            !.dry_run = dry_run,
            !.pr_number = pr_number,
            !.review_mode = review_mode(comment_body),
            !.update_mode = update_mode(comment_body)]
    /\ main_fx' = NoEffects
    /\ UNCHANGED notMain

\* lines 898-910: the oracle selects n files, or its call raises (nothing in
\* main catches it).  With no file the "no updates needed" comment is
\* posted under `review_mode or update_mode` alone.
MainAsk(n, outcome, gh) ==
    /\ main_st.pc = "ask"
    /\ IF outcome = "raises"
       THEN /\ main_st' = [main_st EXCEPT !.pc = "raised"]
            /\ UNCHANGED main_fx
       ELSE IF n = 0
       THEN /\ main_st' = [main_st EXCEPT !.pc = "done"]
            /\ main_fx' =
                 IF main_st.review_mode \/ main_st.update_mode
                 THEN post_review_comment(main_fx, <<>>, main_st.pr_number,
                                          FALSE, gh)
                 ELSE main_fx
       ELSE /\ main_st' = [main_st EXCEPT !.pc = "files",
                              !.relevant_files = SubSeq(MainFiles, 1, n)]
            /\ UNCHANGED main_fx
    /\ UNCHANGED notMain

\* lines 916-937: one turn of the loop over relevant_files.
\* outcome "unreadable": load_full_content returns ""; "raises": the oracle
\* call raises; "no_update": NO_UPDATE_NEEDED; "updated": new content, which
\* is written only under `update_mode and not args.dry_run`
MainFile(outcome, write_ok) ==
    /\ main_st.pc = "files"
    /\ main_st.relevant_files # <<>>
    /\ LET file_path == Head(main_st.relevant_files)
           rest == Tail(main_st.relevant_files)
           writes == main_st.update_mode /\ ~main_st.dry_run
       IN  CASE outcome = "raises" ->
                  /\ main_st' = [main_st EXCEPT !.pc = "raised"]
                  /\ UNCHANGED main_fx
             [] outcome \in {"unreadable", "no_update"} ->
                  /\ main_st' = [main_st EXCEPT !.relevant_files = rest]
                  /\ UNCHANGED main_fx
             [] outcome = "updated" ->
                  /\ main_st' = [main_st EXCEPT
                        !.relevant_files = rest,
                        !.files_with_content = Append(@, file_path),
                        !.modified_files =
                            IF writes /\ write_ok THEN Append(@, file_path) ELSE @]
                  /\ main_fx' = IF writes /\ write_ok
                                THEN [main_fx EXCEPT !.written = @ \cup {file_path}]
                                ELSE main_fx
    /\ UNCHANGED notMain

\* push_and_open_pr (lines 746-855) and the checkout before it (lines
\* 974-989): what reached the remote, and whether the call raised
PrOutcomes == {"commit_fails", "push_fails", "pushed_pr_exists",
               "pushed_pr_created", "pushed_create_fails"}

push_and_open_pr(fx, outcome) ==
    [fx EXCEPT
        !.pushed = outcome \in {"pushed_pr_exists", "pushed_pr_created",
                                "pushed_create_fails"},
        !.pr_opened = outcome = "pushed_pr_created"]

\* lines 939-1002: the comment and the pull request
MainHandle(gh, outcome) ==
    /\ main_st.pc = "files"
    /\ main_st.relevant_files = <<>>
    /\ LET comments_on == (main_st.review_mode \/ main_st.update_mode)
                              /\ ~main_st.dry_run
           commented ==
               IF comments_on
               THEN post_review_comment(main_fx, main_st.files_with_content,
                                        main_st.pr_number, main_st.update_mode, gh)
               ELSE main_fx
       IN  IF main_st.files_with_content # <<>>
              /\ main_st.update_mode /\ main_st.modified_files # <<>>
              /\ ~main_st.dry_run
           THEN /\ main_fx' = push_and_open_pr(commented, outcome)
                /\ main_st' = [main_st EXCEPT !.pc =
                       IF outcome \in {"pushed_pr_exists", "pushed_pr_created"}
                       THEN "done" ELSE "raised"]
           ELSE /\ main_fx' = commented
                /\ main_st' = [main_st EXCEPT !.pc = "done"]
    /\ UNCHANGED notMain

\* the process has ended
MainExit ==
    /\ main_st.pc \in {"done", "raised"}
    /\ main_st' = IdleMainSt
    /\ main_fx' = NoEffects
    /\ UNCHANGED notMain

NextMain ==
    \/ \E b \in CommentBodies, d \in BOOLEAN, pr \in PrNumbers,
          e \in {"no_diff", "setup_fails", "no_previews", "go"} :
          MainStart(b, d, pr, e)
    \/ \E n \in 0..MaxRelevant, o \in {"answers", "raises"}, gh \in {"ok", "fails"} :
          MainAsk(n, o, gh)
    \/ \E o \in {"unreadable", "raises", "no_update", "updated"}, w \in BOOLEAN :
          MainFile(o, w)
    \/ \E gh \in {"ok", "fails"}, o \in PrOutcomes : MainHandle(gh, o)
    \/ MainExit

(***************************************************************************)
(* The index directory as files: save_index, load_index, load_all_indexes  *)
(* (doc_index.py, lines 315-373)                                           *)
(***************************************************************************)
\* characters of an area name; ".index" stands for these six characters
NameChars == {"a", "-", ".index"}

\* the names get_doc_folders can return: one path segment that does not
\* start with "." (nor "_")
AreaNames ==
    {n \in UNION {[1..k -> NameChars] : k \in 1..MaxNameLen} : n[1] # ".index"}

\* the index texts: one line, two lines with LF, two lines with CR LF
IndexTexts == {<<"A">>, <<"A", "LF", "B">>, <<"A", "CR", "LF", "B">>}

\* str.replace(old, new) on single characters
ReplaceChar(name, old, new) ==
    [i \in 1..Len(name) |-> IF name[i] = old THEN new ELSE name[i]]

\* str.replace(".index", "")
WithoutIndex(stem) == SelectSeq(stem, LAMBDA c : c # ".index")

\* lines 329 and 345: the stem of the file "<folder with - for />.index.md"
index_file_stem(folder) == ReplaceChar(folder, "/", "-") \o <<".index">>

\* line 330: write_text stores the text as it is; lines 346-347 and 372:
\* read_text translates the line ends
write_text(text) == text
read_text(stored) == UniversalNewlines(stored)

\* save_index(folder, index_content), lines 315-331, on a directory
save_index_file(dir, folder, text) ==
    (index_file_stem(folder) :> write_text(text)) @@ dir

\* load_index(folder), lines 334-348
load_index(dir, folder) ==
    IF index_file_stem(folder) \in DOMAIN dir
    THEN read_text(dir[index_file_stem(folder)])
    ELSE NoneText

\* lines 367-371: the key under which one index file is loaded
folder_name(stem) ==
    LET decoded == ReplaceChar(WithoutIndex(stem), "-", "/") IN
    IF \E i \in 1..Len(decoded) : decoded[i] = "/"
    THEN decoded
    ELSE WithoutIndex(stem)

\* load_all_indexes(), lines 351-373: when two files get the same key the
\* one globbed last stays, and the order of glob is not defined
load_all_indexes(dir) ==
    {indexes \in [{folder_name(st) : st \in DOMAIN dir} -> {read_text(dir[st]) : st \in DOMAIN dir}] :
        \A k \in DOMAIN indexes :
            \E st \in DOMAIN dir : folder_name(st) = k /\ indexes[k] = read_text(dir[st])}

NoSave == [saves |-> 0, folder |-> <<>>, text |-> <<>>,
           loaded |-> FALSE, indexes |-> <<>>, index |-> <<>>]

IdleIndexFiles == idx_dir = <<>> /\ idx_log = NoSave

\* one call of save_index
SaveIndex(folder, text) ==
    /\ idx_log.saves < MaxSaves
    /\ idx_dir' = save_index_file(idx_dir, folder, text)
    /\ idx_log' = [NoSave EXCEPT !.saves = idx_log.saves + 1,
                                 !.folder = folder, !.text = text]
    /\ UNCHANGED notIndexFiles

\* load_all_indexes() and load_index(folder) for the folder saved last
LoadIndexes ==
    /\ idx_log.saves > 0
    /\ ~idx_log.loaded
    /\ \E indexes \in load_all_indexes(idx_dir) :
          idx_log' = [idx_log EXCEPT !.loaded = TRUE, !.indexes = indexes,
                                     !.index = load_index(idx_dir, idx_log.folder)]
    /\ UNCHANGED idx_dir
    /\ UNCHANGED notIndexFiles

NextIndexFiles ==
    \/ \E a \in AreaNames, t \in IndexTexts : SaveIndex(a, t)
    \/ LoadIndexes

(***************************************************************************)
(* Specifications: one per subsystem, the others at rest                   *)
(***************************************************************************)
InitBuildSpec ==
    /\ InitBuild /\ IdleMatch /\ IdleFiles /\ IdleSummary /\ IdleDocs /\ IdlePublish
    /\ IdleCommand /\ IdleMain /\ IdleIndexFiles
SpecBuild == InitBuildSpec /\ [][NextBuild]_vars
SpecBuildFaults == InitBuildSpec /\ [][NextBuildFaults]_vars

\* any documentation tree; the manifest file is absent or does not parse
InitBuildCorrupt ==
    /\ \E tree \in [DocPaths -> {InitContent, Absent}] :
       \E on_disk \in {EmptyManifest, UnparsableManifest} :
           InitBuildWith(tree, on_disk)
    /\ IdleMatch /\ IdleFiles /\ IdleSummary /\ IdleDocs /\ IdlePublish
    /\ IdleCommand /\ IdleMain /\ IdleIndexFiles
SpecBuildCorrupt == InitBuildCorrupt /\ [][NextBuildCorrupt]_vars

\* the build runs on a tree that may hold unreadable documents
InitBuildIO ==
    /\ \E tree \in [DocPaths -> {InitContent, Unreadable, Absent}] :
           InitBuildAt(tree)
    /\ IdleMatch /\ IdleFiles /\ IdleSummary /\ IdleDocs /\ IdlePublish
    /\ IdleCommand /\ IdleMain /\ IdleIndexFiles
SpecBuildIO == InitBuildIO /\ [][NextBuildIO]_vars

InitMatch ==
    /\ IdleBuild /\ IdleMatch /\ IdleFiles /\ IdleSummary /\ IdleDocs /\ IdlePublish
    /\ IdleCommand /\ IdleMain /\ IdleIndexFiles
SpecMatch == InitMatch /\ [][NextMatch]_vars

InitFiles ==
    /\ IdleBuild /\ IdleMatch /\ IdleFiles /\ IdleSummary /\ IdleDocs /\ IdlePublish
    /\ IdleCommand /\ IdleMain /\ IdleIndexFiles
SpecFiles == InitFiles /\ [][NextFiles]_vars

\* both stages of the lookup in one process: each is a synchronous call, so
\* a step of one is taken only while the other is not in a call
AreaStage == IdleFiles /\ NextMatch
FileStage == IdleMatch /\ NextFiles
NextStages == AreaStage \/ FileStage
InitStages ==
    /\ IdleBuild /\ IdleMatch /\ IdleFiles /\ IdleSummary /\ IdleDocs /\ IdlePublish
    /\ IdleCommand /\ IdleMain /\ IdleIndexFiles
SpecStages == InitStages /\ [][NextStages]_vars

\* any setting of the two secrets in the environment
InitCommand ==
    /\ IdleBuild /\ IdleMatch /\ IdleFiles /\ IdleSummary /\ IdleDocs /\ IdlePublish
    /\ cmd_env \in [GH_TOKEN : GhTokens, GEMINI_API_KEY : GeminiKeys]
    /\ cmd_call = NoCall
    /\ cmd_result = NoResult
    /\ IdleMain /\ IdleIndexFiles
SpecCommand == InitCommand /\ [][NextCommand]_vars

\* one process of suggest_docs.py after another
InitMain ==
    /\ IdleBuild /\ IdleMatch /\ IdleFiles /\ IdleSummary /\ IdleDocs /\ IdlePublish
    /\ IdleCommand /\ IdleMain /\ IdleIndexFiles
SpecMain == InitMain /\ [][NextMain]_vars

\* an empty index directory that index documents are saved into
InitIndexFiles ==
    /\ IdleBuild /\ IdleMatch /\ IdleFiles /\ IdleSummary /\ IdleDocs /\ IdlePublish
    /\ IdleCommand /\ IdleMain /\ IdleIndexFiles
SpecIndexFiles == InitIndexFiles /\ [][NextIndexFiles]_vars

\* any documents on both sides, any summaries manifest, any summary files
InitSafe ==
    /\ IdleBuild /\ IdleMatch /\ IdleFiles /\ IdleSummary /\ IdleCommand
    /\ IdleMain /\ IdleIndexFiles
    /\ localDoc \in [Docs -> DocBytes \cup {NoDoc}]
    /\ mainDoc \in [Docs -> DocBytes \cup {NoDoc}]
    /\ sumEntry \in [Docs -> {"none", "no_file", "entry"}]
    /\ sumExists \in [Docs -> BOOLEAN]
    /\ IdlePublish
SpecSafe == InitSafe /\ [][NextSafe]_vars

\* a repository with cached summaries for both documents, some cache files
\* changed, on the base branch or on a pull-request branch that is up to
\* date with the base branch or has diverged from it
InitPublish ==
    /\ IdleBuild /\ IdleMatch /\ IdleFiles /\ IdleSummary /\ IdleCommand
    /\ IdleMain /\ IdleIndexFiles
    /\ localDoc \in [Docs -> {BytesLF, BytesOther}]
    /\ mainDoc \in [Docs -> {BytesLF, NoDoc}]
    /\ sumEntry = [d \in Docs |-> "entry"]
    /\ sumExists = [d \in Docs |-> TRUE]
    /\ safe_log = IdleSafeLog
    /\ \E changed \in SUBSET CacheFiles, other \in BOOLEAN, on_base \in BOOLEAN,
          sub \in BOOLEAN, diverged \in BOOLEAN, extra \in SUBSET {IndexFile} :
          /\ (extra # {}) => diverged
          /\ penv = [changed |-> changed, base_extra |-> extra,
                     other_staged |-> other, on_base |-> on_base,
                     docs_subfolder |-> sub, diverged |-> diverged]
    /\ pub = IdlePub
SpecPublish == InitPublish /\ [][NextPublish]_vars

\* a cache that is empty, or whose manifest does not parse (it is not JSON,
\* or it is not even text), or that was fetched with entries for every file
\* and no summary file
InitSummary ==
    /\ IdleBuild /\ IdleMatch /\ IdleFiles /\ IdleDocs /\ IdlePublish
    /\ IdleCommand /\ IdleMain /\ IdleIndexFiles
    /\ sdocs = [p \in SumPaths |-> InitContent]
    /\ sumManifest \in
          {[ok |-> TRUE, decodes |-> TRUE, files |-> EmptyFiles],
           [ok |-> FALSE, decodes |-> TRUE, files |-> EmptyFiles],
           [ok |-> FALSE, decodes |-> FALSE, files |-> EmptyFiles],
           [ok |-> TRUE, decodes |-> TRUE, files |->
               [p \in SumPaths |->
                   [present |-> TRUE, hash |-> sha256(InitContent),
                    summary_file |-> get_summary_filename(p)]]]}
    /\ sumArtifacts = [n \in SumNames |-> NoArtifact]
    /\ manifest_lock = "free"
    /\ sth = [t \in SThreads |-> IdleThread]
    /\ sumCalls = 0
    /\ sumEdits = 0
SpecSummary == InitSummary /\ [][NextSummary]_vars

(***************************************************************************)
(* Claims about staleness and the build runs (checked under SpecBuild)     *)
(***************************************************************************)
StoredHashes(m, a) == m.folders[a].doc_hashes
HasEntry(m, a) == a \in DOMAIN m.folders
Present(p) == files[p] # Absent

FileAdded(m, a, p) == p[1] = a /\ Present(p) /\ p \notin DOMAIN StoredHashes(m, a)
FileRemoved(m, a, p) == p \in DOMAIN StoredHashes(m, a) /\ ~(p[1] = a /\ Present(p))
FileChanged(m, a, p) ==
    /\ p[1] = a /\ Present(p) /\ p \in DOMAIN StoredHashes(m, a)
    /\ StoredHashes(m, a)[p] # sha256(files[p])

MapsDiffer(m, a) ==
    \E p \in DocPaths : FileAdded(m, a, p) \/ FileRemoved(m, a, p) \/ FileChanged(m, a, p)

\* C1: for every area and every manifest (the stored one and the one a run
\* holds in memory), folder_needs_reindex is true iff the area has no entry
\* or a file was added, removed or changed against the stored digest map,
\* and false iff the two maps have the same keys and the same values.
C1_StaleIffMapsDiffer ==
    \A a \in Areas : \A m \in {manifestDisk, manifest} :
        folder_needs_reindex(a, m) <=> (~HasEntry(m, a) \/ MapsDiffer(m, a))

\* C1 witness: an area with an entry whose keys are the current ones but
\* one digest differs is reported stale, while another built area is fresh.
C1_Witness ==
    \E a \in Areas :
        /\ HasEntry(manifestDisk, a)
        /\ DOMAIN StoredHashes(manifestDisk, a) = get_docs_in_folder(a)
        /\ \E p \in DocPaths : FileChanged(manifestDisk, a, p)
        /\ folder_needs_reindex(a, manifestDisk)
        /\ \E b \in Areas \ {a} :
              HasEntry(manifestDisk, b) /\ ~folder_needs_reindex(b, manifestDisk)

\* C2: in a run without the force flag (build_all_indexes(force=False) or
\* update_indexes_if_needed, first or repeated), an area whose digest map
\* equals its stored entry and whose files stay unchanged during the run is
\* never handed to the Index Builder and gets no oracle call.
C2_FreshAreaNoOracleCall ==
    \A a \in Areas :
        (/\ pc # "idle"
         /\ ~force
         /\ a \notin editedInRun
         /\ a \in FreshAreas(manifestDisk))
        => (oracleCalls[a] = 0 /\ invoked[a] = 0 /\ wstate[a] = "none")

\* C2 witness: a repeated unforced run that calls the oracle for a stale
\* area while a fresh area is left alone.
C2_Witness ==
    /\ pc # "idle" /\ ~force /\ run >= 2
    /\ \E a \in Areas, b \in Areas :
          /\ a \in FreshAreas(manifestDisk) /\ a \notin editedInRun
          /\ get_docs_in_folder(a) # {}
          /\ oracleCalls[a] = 0
          /\ oracleCalls[b] > 0

BuiltOk(a) ==
    \/ ret.status = "built" /\ a \in DOMAIN ret.results /\ ret.results[a] = "success"
    \/ ret.status = "updated" /\ a \in Range(ret.folders)

\* C3: starting from the empty manifest, for an area with documents that do
\* not change: it is stale before the first run; the first run (unless an
\* exception of the file system ends it) invokes the Index Builder for it
\* exactly once; once a run has built it successfully
\* the saved manifest holds the digest of each of its files and the
\* staleness check is false; a following unforced run does not invoke the
\* Index Builder for it.
C3_FirstBuildThenFresh ==
    \A a \in Areas :
        (edits = 0 /\ get_docs_in_folder(a) # {}) =>
            /\ run = 0 => folder_needs_reindex(a, manifestDisk)
            /\ run = 1 => invoked[a] <= 1
            /\ (run = 1 /\ pc = "idle" /\ ret.status # "raised") => invoked[a] = 1
            /\ (pc = "idle" /\ BuiltOk(a)) =>
                  /\ HasEntry(manifestDisk, a)
                  /\ DOMAIN StoredHashes(manifestDisk, a) = get_docs_in_folder(a)
                  /\ \A p \in get_docs_in_folder(a) :
                        StoredHashes(manifestDisk, a)[p] = sha256(files[p])
                  /\ ~folder_needs_reindex(a, manifestDisk)
            /\ (run >= 2 /\ ~force /\ HasEntry(manifestDisk, a)
                   /\ ~folder_needs_reindex(a, manifestDisk) /\ pc # "idle")
                  => invoked[a] = 0

\* C3 witness: "guides" with two unchanged files was built by the first run,
\* the manifest holds both digests, and the second, unforced run found
\* nothing to build.
C3_Witness ==
    /\ edits = 0 /\ run = 2 /\ pc = "idle" /\ ~force
    /\ ret.status = "up_to_date"
    /\ HasEntry(manifestDisk, "guides")
    /\ Cardinality(DOMAIN StoredHashes(manifestDisk, "guides")) = 2
    /\ ~folder_needs_reindex("guides", manifestDisk)

(***************************************************************************)
(* Claims about an unparsable manifest (checked under SpecBuildCorrupt)    *)
(***************************************************************************)
\* C24: a run of build_all_indexes or update_indexes_if_needed that starts
\* on a manifest file that does not parse does not end with an exception:
\* it reads the manifest as empty and goes on to build the areas.
C24_UnparsableManifestNotFatal ==
    (~ManifestParses /\ run > 0) => ret.status # "raised"

(***************************************************************************)
(* Claims about the relevance matcher (SpecMatch, SpecFiles)               *)
(***************************************************************************)
\* C4: whatever the oracle answered, the list _process_area_batch returns
\* for a batch holds only names of that batch's batch_folders, and every
\* area find_relevant_areas_from_indexes returns is a loaded index name.
C4_VerdictWithinBatch ==
    /\ Range(batch_log.verdict) \subseteq Range(batch_log.batch)
    /\ Range(all_relevant_areas) \subseteq Range(all_folders)
    /\ (mpc = "done" /\ m_ret.kind = "list") =>
          Range(m_ret.items) \subseteq Range(all_folders)

\* C4 witness: in the second batch the oracle named an area of the first
\* batch and an invented one together with an area of the second batch;
\* only the latter was returned.
C4_Witness ==
    /\ mpc = "done" /\ m_ret.kind = "list"
    /\ Len(all_folders) > BATCH_SIZE
    /\ batch_log.batch = Slice(all_folders, BATCH_SIZE, BATCH_SIZE)
    /\ batch_log.verdict = <<all_folders[BATCH_SIZE + 1]>>
    /\ \E i \in 1..Len(batch_log.named) :
          batch_log.named[i] \in {all_folders[1], Invented}
    /\ m_calls = m_max_retries
    /\ all_folders[1] \in Range(m_ret.items)

\* C5: in the file-level stage every path kept for a batch is the name of
\* a preview offered in that batch, and every returned path is the name of
\* an offered preview.
C5_FileVerdictWithinBatch ==
    /\ Range(f_log.kept) \subseteq Range(f_log.batch)
    /\ (fpc = "done" /\ f_ret.kind = "list") =>
          Range(f_ret.items) \subseteq Range(file_previews)

\* C18: with no index loaded find_relevant_areas_from_indexes returns None,
\* the signal to fall back to the full scan, and has asked the oracle
\* nothing; with at least one index loaded it evaluates batches and what it
\* returns is a list, possibly empty, never None.
C18_NoneIffNoIndexes ==
    /\ (mpc = "done" /\ all_folders = <<>>) =>
          (m_ret = NoList /\ m_calls = 0 /\ ~batch_log.final)
    /\ (mpc = "done" /\ all_folders # <<>>) =>
          (m_ret.kind = "list" /\ m_calls > 0)
    /\ mpc = "batch" => all_folders # <<>>

\* C18 witness: indexes were loaded, every batch was answered with an empty
\* array, and the matcher returned the empty list, not the signal.
C18_Witness ==
    /\ mpc = "done"
    /\ Len(all_folders) > BATCH_SIZE
    /\ all_relevant_areas = <<>>
    /\ batch_log.named = <<>> /\ m_calls = 1
    /\ m_ret = AList(<<>>)

\* the position in g of the first occurrence of x
FirstAt(x, g) ==
    CHOOSE i \in 1..Len(g) : g[i] = x /\ \A j \in 1..(i - 1) : g[j] # x

\* r has no name twice, has exactly the names of g, and orders them as their
\* first occurrences are ordered in g
FirstSeenOrder(r, g) ==
    /\ \A i, j \in 1..Len(r) : i # j => r[i] # r[j]
    /\ Range(r) = Range(g)
    /\ \A i, j \in 1..Len(r) : i < j => FirstAt(r[i], g) < FirstAt(r[j], g)

AreaBatchReturns == mpc = "batch" /\ batch_log'.final
FileBatchReturns == fpc = "batch" /\ fpc' # "raised"

\* the verdict of the batch at batch_idx is appended, the next batch follows
AreaVerdictAppended ==
    /\ batch_log'.batch = Slice(all_folders, batch_idx, BATCH_SIZE)
    /\ all_relevant_areas' = all_relevant_areas \o batch_log'.verdict
    /\ (mpc' = "batch" => batch_idx' = batch_idx + BATCH_SIZE)

FileVerdictAppended ==
    /\ f_log'.batch = Slice(file_previews, f_idx, batch_size)
    /\ all_relevant_files' = all_relevant_files \o f_log'.kept
    /\ (fpc' = "batch" => f_idx' = f_idx + batch_size)

ReturnedInFirstSeenOrder ==
    /\ (mpc = "done" /\ m_ret.kind = "list") =>
          FirstSeenOrder(m_ret.items, all_relevant_areas)
    /\ (fpc = "done" /\ f_ret.kind = "list") =>
          FirstSeenOrder(f_ret.items, all_relevant_files)

\* C19: in both stages each batch's verdict is appended to the verdicts
\* gathered so far, batches being taken in the order of the input, and the
\* list returned holds every gathered name once, in the order of the first
\* occurrences (b,a,b,c gives b,a,c).
C19_FirstSeenDedup ==
    /\ []ReturnedInFirstSeenOrder
    /\ [][(AreaBatchReturns => AreaVerdictAppended)
          /\ (FileBatchReturns => FileVerdictAppended)]_vars

\* C19 witness: the file stage gathered b,a from the first batch and b,c
\* from the second one and returned b,a,c.
C19_Witness ==
    /\ fpc = "done" /\ f_ret.kind = "list"
    /\ Len(file_previews) > batch_size
    /\ LET a == file_previews[1]
           b == file_previews[Len(file_previews)]
           c == GhostDoc
       IN  /\ all_relevant_files = <<b, a, b, c>>
           /\ f_ret.items = <<b, a, c>>

\* C19 in the area stage: a verdict that names an area twice together with
\* the verdict of the next batch gives each area once, first batch first.
C19_AreaStageReached ==
    /\ mpc = "done" /\ m_ret.kind = "list"
    /\ Len(all_folders) > BATCH_SIZE
    /\ all_relevant_areas = <<all_folders[2], all_folders[2],
                              all_folders[BATCH_SIZE + 1]>>
    /\ m_ret.items = <<all_folders[2], all_folders[BATCH_SIZE + 1]>>

\* the step in which _process_area_batch gives the current batch up
BatchGivenUp == mpc = "batch" /\ Len(batch_log'.skipped) > Len(batch_log.skipped)

LastBatch(folders) ==
    Slice(folders, ((Len(folders) - 1) \div BATCH_SIZE) * BATCH_SIZE, BATCH_SIZE)

\* the given-up batch adds nothing and the loop goes on or returns the list
SkippedAndGoesOn ==
    /\ m_attempt = m_max_retries - 1 /\ m_calls' = m_max_retries
    /\ batch_log'.verdict = <<>>
    /\ all_relevant_areas' = all_relevant_areas
    /\ IF batch_idx + BATCH_SIZE < Len(all_folders)
       THEN mpc' = "batch" /\ batch_idx' = batch_idx + BATCH_SIZE
       ELSE mpc' = "done" /\ m_ret' = AList(Dedup(all_relevant_areas))

MatchNeverAborted ==
    /\ mpc \in {"idle", "batch", "done"}
    /\ m_ret.kind \in {"none", "None", "list"}
    /\ m_attempt < m_max_retries
    /\ (mpc = "done" /\ all_folders # <<>>) =>
          /\ m_ret.kind = "list"
          /\ batch_log.batch = LastBatch(all_folders)
          /\ Range(m_ret.items) = Range(all_relevant_areas)

\* C20: a batch whose every attempt failed (the call raised, the text was
\* empty or could not be parsed) is given up after m_max_retries calls, adds
\* nothing to the gathered verdicts and does not end the match: the next
\* batch is evaluated, or, after the last batch, the list gathered from the
\* other batches is returned.  A match over loaded indexes therefore ends
\* only after its last batch, with every gathered verdict in the result.
C20_FailedBatchSkipped ==
    /\ []MatchNeverAborted
    /\ [][(BatchGivenUp => SkippedAndGoesOn)
          /\ (AreaBatchReturns =>
                all_relevant_areas' = all_relevant_areas \o batch_log'.verdict)]_vars

\* C20 witness: the first batch was given up, the second one was evaluated
\* and its verdict is the result.
C20_Witness ==
    /\ mpc = "done"
    /\ batch_log.skipped = <<1>>
    /\ batch_log.batch = Slice(all_folders, BATCH_SIZE, BATCH_SIZE)
    /\ batch_log.verdict = <<all_folders[BATCH_SIZE + 1]>>
    /\ m_ret = AList(<<all_folders[BATCH_SIZE + 1]>>)

FailedResponses == {"raise", "text_raise", "empty", "malformed", "fence_only", "scalar"}

\* the response was parsed: the batch is over with this call
AnswerIsFinal ==
    /\ batch_log'.final /\ batch_log'.skipped = batch_log.skipped
    /\ batch_log'.batch = Slice(all_folders, batch_idx, BATCH_SIZE)
    /\ m_attempt' = 0
    /\ mpc' = "done" \/ (mpc' = "batch" /\ batch_idx' = batch_idx + BATCH_SIZE)

\* the response failed and attempts remain: the same batch is asked again
AttemptRepeated ==
    /\ ~batch_log'.final
    /\ mpc' = "batch" /\ batch_idx' = batch_idx
    /\ m_attempt' = m_attempt + 1
    /\ all_relevant_areas' = all_relevant_areas

\* the response failed on the last attempt: the batch is over, with no verdict
LastAttemptFailed ==
    /\ batch_log'.final /\ batch_log'.verdict = <<>>
    /\ m_attempt' = 0
    /\ mpc' = "done" \/ (mpc' = "batch" /\ batch_idx' = batch_idx + BATCH_SIZE)

AttemptOutcome ==
    /\ m_calls' = m_attempt + 1
    /\ batch_log'.response \in {"list", "dict"} => AnswerIsFinal
    /\ (batch_log'.response \in FailedResponses /\ m_attempt < m_max_retries - 1)
          => AttemptRepeated
    /\ (batch_log'.response \in FailedResponses /\ m_attempt = m_max_retries - 1)
          => LastAttemptFailed

CallsBounded ==
    /\ m_calls \in 0..m_max_retries
    /\ m_attempt \in 0..(m_max_retries - 1)
    /\ batch_log.final => Range(batch_log.verdict) \subseteq Range(batch_log.batch)

\* C21: for one batch _process_area_batch asks the oracle at most
\* m_max_retries = 3 times and then returns a list; a response that parses
\* (the empty array included) ends the batch with that call, a response that
\* raises, is empty or does not parse is followed by another call for the
\* same batch while fewer than three calls were made.
C21_AtMostThreeCallsArrayFinal ==
    /\ []CallsBounded
    /\ [][mpc = "batch" => AttemptOutcome]_vars

\* C21 witness: the first batch was answered with the empty array at the
\* first call, the second batch failed twice and is about to be asked a
\* third time.
C21_Witness ==
    /\ mpc = "batch" /\ batch_idx = BATCH_SIZE
    /\ all_relevant_areas = <<>> /\ batch_log.skipped = <<>>
    /\ m_attempt = m_max_retries - 1 /\ m_calls = 2
    /\ batch_log.response = "empty"

\* C21: the first batch was answered with the empty array at the first call
C21_EmptyArrayFinal ==
    /\ mpc = "batch" /\ batch_idx = BATCH_SIZE
    /\ batch_log.final /\ batch_log.response = "list" /\ batch_log.named = <<>>
    /\ m_calls = 1

\* the number of batches for n indexes: ceil(n / BATCH_SIZE)
total_batches(n) == (n + BATCH_SIZE - 1) \div BATCH_SIZE

\* the i-th of the consecutive batches of at most BATCH_SIZE folders
ConsecutiveBatch(folders, i) ==
    LET start == (i - 1) * BATCH_SIZE
        size == IF Len(folders) - start < BATCH_SIZE THEN Len(folders) - start
                                                     ELSE BATCH_SIZE
    IN  [k \in 1..size |-> folders[start + k]]

\* the batches evaluated so far are the first consecutive batches, each
\* with the diff of the call
OfferedInOrder ==
    \A i \in 1..Len(batch_log.offered) :
        /\ batch_log.offered[i].folders = ConsecutiveBatch(all_folders, i)
        /\ Len(batch_log.offered[i].folders) \in 1..BATCH_SIZE
        /\ batch_log.offered[i].diff = m_diff

\* C29: the batches evaluated are consecutive slices of at most 5 of the
\* loaded index names, each evaluated with the diff of the call; when the
\* matcher returns for n > 0 indexes, ceil(n/5) batches were evaluated and
\* every loaded area was in exactly one of them.
C29_BatchesPartitionIndexes ==
    /\ OfferedInOrder
    /\ (mpc = "batch" => Len(batch_log.offered) = batch_idx \div BATCH_SIZE)
    /\ (mpc = "done" /\ all_folders # <<>>) =>
          /\ Len(batch_log.offered) = total_batches(Len(all_folders))
          /\ \A k \in 1..Len(all_folders) :
                Cardinality({i \in 1..Len(batch_log.offered) :
                                all_folders[k] \in Range(batch_log.offered[i].folders)})
                    = 1

\* C29 witness: six indexes were evaluated in two batches, of five and of one
C29_Witness ==
    /\ mpc = "done" /\ Len(all_folders) = BATCH_SIZE + 1
    /\ Len(batch_log.offered) = 2
    /\ Len(batch_log.offered[1].folders) = BATCH_SIZE
    /\ batch_log.offered[2].folders = <<all_folders[BATCH_SIZE + 1]>>
    /\ batch_log.offered[1].diff = "diff2" /\ batch_log.offered[2].diff = "diff2"

\* C30: in the file stage an oracle call that fails does not end the match:
\* ask_gemini_for_relevant_files never ends with an exception, the batch
\* contributes nothing and the batches after it are evaluated.
C30_FileBatchFailureSkipped ==
    /\ fpc # "raised"
    /\ f_ret.kind # "exception"

(***************************************************************************)
(* Claims about the Cache Publisher                                        *)
(***************************************************************************)
PubDone == pub.ppc = "done"

C7_WholesaleOnlyWhenUpToDate ==
    pub.staged_all => (pub.compared = "obtained" /\ ~penv.diverged)

C10_NothingToPublish ==
    (\/ pub.status_seen /\ pub.status_stdout = {}
     \/ pub.staged_seen /\ pub.staged_stdout = {})
    => /\ PubDone
       /\ pub.ret = "False"
       /\ pub.commits = 0
       /\ ~pub.pushed

\* changes were reported, the add step ran, and the index is still empty
C10_Witness ==
    /\ PubDone
    /\ pub.status_seen /\ pub.status_stdout # {}
    /\ pub.staged_seen /\ pub.staged_stdout = {}
    /\ pub.files_to_add # {}
    /\ pub.ret = "False"

(***************************************************************************)
(* Claims about the safety of summaries                                    *)
(***************************************************************************)
\* the shared branch holds the document with identical bytes
ByteIdentical(d) ==
    /\ localDoc[d] # NoDoc
    /\ mainDoc[d] # NoDoc
    /\ localDoc[d] = mainDoc[d]

\* C8: doc_matches_main returns True exactly when the shared branch holds
\* the document with identical content, and get_safe_summaries_to_push
\* returns exactly the existing summary files of such documents.
C8_SafeIffByteIdentical ==
    safe_log.done =>
        /\ \A d \in Docs : safe_log.matches[d] = ByteIdentical(d)
        /\ safe_log.safe = {SummaryFile(d) : d \in {d \in Docs :
                                /\ sumEntry[d] = "entry"
                                /\ sumExists[d]
                                /\ ByteIdentical(d)}}

(***************************************************************************)
(* Claims about the Summary Cache Store (checked under SpecSummary)        *)
(***************************************************************************)
\* the thread is past load_cached_summary
Loaded(t) == sth[t].pc \notin {"idle", "load"}

\* the thread is past generate_func
Generated(t) == sth[t].pc \in {"write", "lock", "store", "done", "raised"}

C12_MissGeneratesOnceThenHit ==
    \A t \in SThreads :
        /\ (Generated(t) /\ ~sth[t].entry_valid) => sth[t].calls = 1
        /\ (sth[t].pc = "done" /\ ~sth[t].entry_valid /\ SumTruthy(sth[t].ret))
           => /\ sth[t].manifest[sth[t].path].present
              /\ sth[t].manifest[sth[t].path].summary_file
                     = get_summary_filename(sth[t].path)
              /\ sth[t].following = sth[t].ret

\* the threads that hold the manifest they loaded and have not saved it yet
Updating == {t \in SThreads : sth[t].pc = "store"}

ManifestExclusive ==
    /\ Cardinality(Updating) <= 1
    /\ \A t \in SThreads : (manifest_lock = t) <=> (t \in Updating)
    /\ (manifest_lock = "free") <=> (Updating = {})

\* thread t saves the manifest in this step
Saves(t) == sth[t].pc = "store" /\ sth'[t].pc = "done"

\* the manifest saved is the manifest on disk plus the entry of t's file
NoUpdateLost ==
    \A t \in SThreads :
        Saves(t) =>
            /\ sumManifest'.ok
            /\ sumManifest'.files[sth[t].path].present
            /\ \A p \in SumPaths \ {sth[t].path} :
                  sumManifest'.files[p] = load_summaries_manifest[p]

EntriesKept ==
    \A p \in SumPaths :
        load_summaries_manifest[p].present => sumManifest'.files[p].present

\* C22: between loading the summaries manifest and saving it save_summary
\* holds _manifest_lock, so at most one thread is there at a time; the
\* manifest a thread saves is the one on disk with its own entry added, and
\* no step removes an entry: once all calls are over, every file that was
\* saved has its entry, in every interleaving.
C22_ManifestUpdateExclusive ==
    /\ []ManifestExclusive
    /\ [][NoUpdateLost /\ EntriesKept]_vars

\* C22 witness: two threads generated and saved summaries of two files,
\* and the manifest has both entries.
C22_Witness ==
    /\ \A t \in SThreads :
          /\ sth[t].pc = "done" /\ sth[t].calls = 1
          /\ sth[t].ret = sth[t].summary /\ SumTruthy(sth[t].ret)
          /\ sumManifest.files[sth[t].path].present
    /\ sth["t1"].path # sth["t2"].path
    /\ sth["t1"].manifest # sth["t2"].manifest

\* C22: one thread is between load and save while the other waits for the lock
C22_Contention ==
    /\ sth["t1"].pc = "store" /\ sth["t2"].pc = "lock"
    /\ ~sumManifest.files[sth["t1"].path].present
    /\ ~sumManifest.files[sth["t2"].path].present

\* the manifest file on disk is not a JSON text
ManifestUnparsable == ~sumManifest.ok

\* C23: while the summaries manifest on disk does not parse, loading it
\* raises nothing and gives no entry, so a call of get_or_generate_summary
\* is a miss: it does not end with an exception of the load, and once it is
\* past the load it goes on to generate_func.
C23_UnparsableManifestIsEmpty ==
    \A t \in SThreads :
        /\ sth[t].pc # "load_raised"
        /\ (ManifestUnparsable /\ Loaded(t) /\ ~Generated(t))
              => sth[t].pc = "generate" /\ ~sth[t].entry_valid

\* the part of C23 that holds: a manifest that is text but not JSON is read
\* as empty, and the first save replaces it by a manifest with one entry
C23_BadJsonIsEmpty ==
    \A t \in SThreads :
        (ManifestUnparsable /\ sumManifest.decodes) =>
            /\ sth[t].pc # "load_raised"
            /\ (Loaded(t) /\ ~Generated(t)) => sth[t].pc = "generate"
            /\ \A p \in SumPaths : ~load_summaries_manifest[p].present

C23_BadJsonReached ==
    /\ ManifestUnparsable /\ sumManifest.decodes
    /\ \E t \in SThreads : sth[t].pc = "store" /\ sth[t].manifest = EmptyFiles

(***************************************************************************)
(* Claims about run_command_safe (checked under SpecCommand)               *)
(***************************************************************************)
\* the text holds the value of a secret that is set
Contains(text, token) ==
    /\ token # Unset
    /\ \E i \in 1..Len(text) :
          /\ i + Len(token) - 1 <= Len(text)
          /\ SubSeq(text, i, i + Len(token) - 1) = token

Leaks(text) ==
    Contains(text, cmd_env.GH_TOKEN) \/ Contains(text, cmd_env.GEMINI_API_KEY)

\* C25: whatever run_command_safe hands back, a result or an exception,
\* with check set or not, its stdout, its stderr and the exception's
\* arguments hold no occurrence of the value of GH_TOKEN or GEMINI_API_KEY.
C25_NoSecretHandedBack ==
    /\ ~Leaks(cmd_result.stdout)
    /\ ~Leaks(cmd_result.stderr)
    /\ \A i \in 1..Len(cmd_result.args) : ~Leaks(cmd_result.args[i])

\* the part of C25 that holds: the two texts of a CalledProcessError and the
\* arguments of any other exception hold no secret
C25_RaisedTextsScrubbed ==
    /\ cmd_result.kind = "CalledProcessError" =>
          ~Leaks(cmd_result.stdout) /\ ~Leaks(cmd_result.stderr)
    /\ cmd_result.kind = "Exception" =>
          \A i \in 1..Len(cmd_result.args) : ~Leaks(cmd_result.args[i])

C25_RaisedTextsReached ==
    /\ cmd_result.kind = "CalledProcessError"
    /\ Leaks(cmd_call.outcome.stderr)
    /\ cmd_result.stderr = <<TokenMark>>

(***************************************************************************)
(* Claims about failures during a build (checked under SpecBuildFaults)    *)
(***************************************************************************)
\* the two manifests say the same about the area
SameEntry(m1, m2, a) ==
    /\ HasEntry(m1, a) <=> HasEntry(m2, a)
    /\ HasEntry(m1, a) => m1.folders[a] = m2.folders[a]

\* the area was dispatched in this run and its result is not a success
NotBuilt(a) == a \in DOMAIN results /\ results[a] # "success"

\* the step in which build_all_indexes saves the manifest and returns
FinishBuildStep == pc = "building" /\ pc' = "idle"

\* C13: when the build of an area fails (every oracle attempt fails, or an
\* exception is raised), the run does not create or change the area's
\* manifest entry: the entry in memory stays the one loaded at the start,
\* the saved manifest has it unchanged, and an area that was stale before
\* the run is stale for the next run.
C13_FailedAreaEntryUntouched ==
    /\ [](pc = "building" =>
            \A a \in Areas : NotBuilt(a) => SameEntry(manifest, manifestDisk, a))
    /\ [][FinishBuildStep =>
            \A a \in Areas : NotBuilt(a) =>
                /\ SameEntry(manifestDisk', manifestDisk, a)
                /\ folder_needs_reindex(a, manifestDisk)
                      => folder_needs_reindex(a, manifestDisk')]_vars

\* the oracle call for "guides" failed, "api" was built in the same run, and
\* after the run "guides" is still stale
C13_Witness ==
    /\ pc = "idle" /\ run = 1
    /\ ret.status = "built"
    /\ DOMAIN ret.results = {"api", "guides"}
    /\ ret.results["guides"] = "empty" /\ oracleCalls["guides"] = 1
    /\ ret.results["api"] = "success"
    /\ ~HasEntry(manifestDisk, "guides")
    /\ HasEntry(manifestDisk, "api")
    /\ folder_needs_reindex("guides", manifestDisk)

\* the oracle was called for the area and the call failed
OracleFailed(a) ==
    /\ wstate[a] = "done"
    /\ oracleCalls[a] > 0
    /\ index_content[a] = None

\* C14: the per-area result tells failure from empty: an area whose oracle
\* call failed is reported as failed, and "empty" is reported only for an
\* area that has no readable documentation file.
C14_FailureDistinctFromEmpty ==
    pc = "building" =>
        \A a \in DOMAIN results :
            /\ OracleFailed(a) => results[a] = "error"
            /\ results[a] = "empty" => get_docs_in_folder(a) = {}

\* C15: a failing oracle call is retried: the area is given up as not built
\* only after the third oracle attempt has failed.
C15_OracleRetriedThreeTimes ==
    \A a \in Areas : OracleFailed(a) => oracleCalls[a] = max_retries

\* some step of the run in progress can be taken
RunCanGoOn ==
    \/ \E a \in Areas : wstate[a] \in {"pending", "calling"}
    \/ \E a \in Areas : wstate[a] = "done" /\ a \notin DOMAIN results
    \/ DOMAIN results = Range(folders_to_build)

\* C16: the failure of some dispatched areas does not prevent the others:
\* every area merged as a success has its index document saved and its
\* manifest entry set to the current digests, the run can always go on to
\* its end, where the manifest in memory is saved and a result is returned
\* for every dispatched area.
C16_PartialFailureKeepsTheRest ==
    /\ [](pc = "building" =>
            /\ RunCanGoOn
            /\ DOMAIN results \subseteq Range(folders_to_build)
            /\ \A a \in DOMAIN results : results[a] = "success" =>
                  /\ a \in DOMAIN indexDisk
                  /\ indexDisk[a] = index_content[a]
                  /\ HasEntry(manifest, a)
                  /\ StoredHashes(manifest, a) = get_folder_doc_hashes(a))
    /\ [][FinishBuildStep =>
            /\ manifestDisk' = manifest
            /\ ret'.status = "built"
            /\ ret'.results = results
            /\ DOMAIN ret'.results = Range(folders_to_build)]_vars

\* one area ended with an exception, the other was built and saved
C16_Witness ==
    /\ pc = "idle" /\ run = 1
    /\ ret.status = "built"
    /\ DOMAIN ret.results = {"api", "guides"}
    /\ ret.results["guides"] = "error"
    /\ ret.results["api"] = "success"
    /\ "api" \in DOMAIN indexDisk
    /\ HasEntry(manifestDisk, "api")
    /\ ~folder_needs_reindex("api", manifestDisk)

\* a run is going on and stays on, and its in-memory manifest changes for a
EntryStep(a) ==
    /\ pc \in {"building", "updating"} /\ pc' = pc
    /\ ~SameEntry(manifest', manifest, a)

\* the step wrote the index document that the worker returned for a
IndexWritten(a) ==
    /\ a \in DOMAIN indexDisk'
    /\ indexDisk'[a] = index_content[a]
    /\ manifestDisk' = manifestDisk

\* the manifest file is written by the step that ends a run, from the
\* in-memory manifest, when nothing is left to merge
SavedAtTheEnd ==
    /\ pc # "idle" /\ pc' = "idle"
    /\ manifestDisk' = manifest
    /\ pc = "building" => DOMAIN results = Range(folders_to_build)
    /\ pc = "updating" => loop_rest = <<>>

EntryHasIndex ==
    \A a \in Areas :
        /\ HasEntry(manifest, a) => a \in DOMAIN indexDisk
        /\ HasEntry(manifestDisk, a) => a \in DOMAIN indexDisk

\* C27: in a run of build_all_indexes or update_indexes_if_needed the entry
\* of an area is created or changed only in a step that has written the
\* area's index document, and the manifest file is written only by the last
\* step of the run, from the manifest holding these entries; hence an area
\* with an entry, in memory or in the saved manifest, has its index document
\* on disk, whatever fails on the way.
C27_IndexThenEntryThenSave ==
    /\ []EntryHasIndex
    /\ [][(\A a \in Areas : EntryStep(a) => IndexWritten(a))
          /\ (manifestDisk' # manifestDisk => SavedAtTheEnd)]_vars

\* C27 witness: for guides the index document was written and the digests
\* could not be computed, api was built; the saved manifest has an entry
\* for api only, both index documents are on disk.
C27_Witness ==
    /\ pc = "idle" /\ ret.status = "built"
    /\ DOMAIN ret.results = {"api", "guides"}
    /\ ret.results["guides"] = "error" /\ ret.results["api"] = "success"
    /\ "guides" \in DOMAIN indexDisk /\ ~HasEntry(manifestDisk, "guides")
    /\ "api" \in DOMAIN indexDisk /\ HasEntry(manifestDisk, "api")

\* the areas whose result is merged by this step
MergedNow == DOMAIN results' \ DOMAIN results

\* a step of the parallel build that changes the in-memory manifest merges
\* the result of one area whose worker has completed, changes the entry of
\* that area only, and no worker moves in it
OneMergeAtATime ==
    (pc = "building" /\ pc' = "building" /\ manifest' # manifest) =>
        \E a \in Areas :
            /\ MergedNow = {a}
            /\ wstate[a] = "done" /\ wstate' = wstate
            /\ index_content' = index_content
            /\ \A b \in Areas \ {a} : SameEntry(manifest', manifest, b)

\* the workers leave the manifest alone
WorkersLeaveManifest ==
    (pc = "building" /\ wstate' # wstate /\ pc' = "building") => manifest' = manifest

\* the saved entries are determined by which areas succeeded
EntriesByResult ==
    FinishBuildStep =>
        \A a \in Areas :
            IF a \in DOMAIN results /\ results[a] = "success"
            THEN /\ HasEntry(manifestDisk', a)
                 /\ manifestDisk'.folders[a].doc_hashes = get_folder_doc_hashes(a)
            ELSE SameEntry(manifestDisk', manifestDisk, a)

\* C28: in the parallel build the results are merged one at a time, by
\* steps in which no worker runs and which change one area's entry; the
\* entries of the manifest saved at the end are those loaded at the start
\* with the entry of each successfully built area replaced by its digests,
\* whatever the order in which the workers completed.
C28_MergesSerializedOrderFree ==
    [][OneMergeAtATime /\ WorkersLeaveManifest /\ EntriesByResult]_vars

\* C28 witness: both areas were dispatched; guides was merged while the
\* worker of api was still calling the oracle.
C28_Witness ==
    /\ pc = "building"
    /\ Range(folders_to_build) = {"api", "guides"}
    /\ DOMAIN results = {"guides"} /\ results["guides"] = "success"
    /\ HasEntry(manifest, "guides") /\ ~HasEntry(manifest, "api")
    /\ wstate["api"] = "calling"

\* C28, the other order: api was merged while guides was being built
C28_OtherOrder ==
    /\ pc = "building"
    /\ Range(folders_to_build) = {"api", "guides"}
    /\ DOMAIN results = {"api"} /\ results["api"] = "success"
    /\ HasEntry(manifest, "api") /\ ~HasEntry(manifest, "guides")
    /\ wstate["guides"] = "calling"

\* C26: when the build command has ended, its exit status is not 0 if the
\* run recorded a failure for at least one area, and 0 if it recorded none.
C26_ExitStatusReflectsFailures ==
    (pc = "idle" /\ ret.status = "built") =>
        (cli_exit_status(ret) # 0
            <=> \E a \in DOMAIN ret.results : ret.results[a] = "error")

\* the step in which build_all_indexes(force) selects the areas
StartBuildStep == pc = "idle" /\ run' = run + 1 /\ pc' # "updating"

\* the discovered areas that qualify: forced, or stale
Qualifying(f) ==
    {a \in Range(get_doc_folders) : f \/ folder_needs_reindex(a, manifestDisk)}

\* C17: build_all_indexes dispatches exactly the discovered areas for which
\* the force flag is set or folder_needs_reindex is true; when none
\* qualifies it returns up_to_date with no oracle call and without saving
\* the manifest; only dispatched areas are worked on.
C17_DispatchExactlyQualifying ==
    /\ [][StartBuildStep =>
            /\ Qualifying(force') = {} =>
                  /\ pc' = "idle"
                  /\ ret'.status = "up_to_date"
                  /\ invoked' = ZeroMap /\ oracleCalls' = ZeroMap
                  /\ manifestDisk' = manifestDisk
            /\ Qualifying(force') # {} =>
                  /\ pc' = "building"
                  /\ Range(folders_to_build') = Qualifying(force')
                  /\ Len(folders_to_build') = Cardinality(Qualifying(force'))
                  /\ {a \in Areas : invoked'[a] = 1} = Qualifying(force')]_vars
    /\ [](pc = "building" =>
            \A a \in Areas :
                (wstate[a] # "none" \/ oracleCalls[a] > 0)
                    => a \in Range(folders_to_build))

\* a forced second run rebuilds an area that is fresh
C17_Witness ==
    /\ pc = "building" /\ run = 2 /\ force
    /\ \E a \in Areas :
          /\ HasEntry(manifestDisk, a)
          /\ ~folder_needs_reindex(a, manifestDisk)
          /\ a \in Range(folders_to_build)
          /\ oracleCalls[a] = 1

(***************************************************************************)
(* Claims about unreadable documents (checked under SpecBuildIO)           *)
(***************************************************************************)
\* the area has an entry in the manifest m and holds a document that cannot
\* be opened (spelled out on the tree, independent of HashesRaise)
TrackedUnreadable(a, m) ==
    /\ a \in DOMAIN m.folders
    /\ \E p \in DocPaths : p[1] = a /\ files[p] = Unreadable

BuildRaised == ret = [status |-> "raised", raised_in |-> "build_all_indexes"]

\* C31: a local I/O error on one documentation file is never fatal to a
\* build run: build_all_indexes completes and returns results, whether the
\* error occurs while the contents are read for the oracle or while the
\* files are hashed for the staleness check.
C31_IOErrorNeverFatalToBuild == ~BuildRaised

\* a build run has ended with the exception of hash_file although another
\* area was fresh and needed nothing
C31_FatalReached ==
    /\ BuildRaised
    /\ \E a \in Areas : a \in FreshAreas(manifestDisk)

\* a step in which build_all_indexes(force = FALSE) runs its selection loop
BuildAsksStaleness ==
    /\ pc = "idle" /\ run' = run + 1 /\ pc' # "updating" /\ ~force'

\* a step in which update_indexes_if_needed asks about the next folder
UpdateAsksStaleness ==
    /\ pc = "updating" /\ loop_rest # <<>> /\ wstate[Head(loop_rest)] = "none"
    /\ <<pc, loop_rest, wstate>>' # <<pc, loop_rest, wstate>>

BuildReadFailurePropagates ==
    (BuildAsksStaleness /\ \E a \in Areas : TrackedUnreadable(a, manifestDisk))
        => ret'.status = "raised"

UpdateReadFailurePropagates ==
    (UpdateAsksStaleness /\ TrackedUnreadable(Head(loop_rest), manifest))
        => (ret'.status = "raised" /\ pc' = "idle")

\* C32: when a file of an area cannot be read while its digest is computed,
\* the staleness check does not answer: the read failure of hash_file leaves
\* get_folder_doc_hashes and folder_needs_reindex and reaches the caller, the
\* area is never taken as fresh (nor as stale with the file left out).
C32_ReadFailurePropagates ==
    [][BuildReadFailurePropagates /\ UpdateReadFailurePropagates]_vars

\* an update run ended with the exception on an area that has an entry
C32_Witness ==
    /\ pc = "idle" /\ ret = [status |-> "raised"]
    /\ \E a \in Areas : TrackedUnreadable(a, manifestDisk)

\* a build run ended the same way
C32_BuildWitness ==
    /\ BuildRaised
    /\ \E a \in Areas : TrackedUnreadable(a, manifestDisk)

(***************************************************************************)
(* Claims about suggest_docs main (checked under SpecMain)                 *)
(***************************************************************************)
\* update mode as the comment states it: the update command in any case, or
\* no command at all
UpdateActive(body) ==
    \/ "[Update-Docs]" \in body
    \/ body \cap {"[review-docs]", "[Update-Docs]"} = {}

Published ==
    main_fx.written # {} \/ main_fx.pushed \/ main_fx.pr_opened

\* C33: in suggest_docs main a documentation file is overwritten, a docs
\* branch pushed or a PR opened only when update mode is active (the update
\* command present, or no command present) and --dry-run is not given; in
\* review-only mode and in every dry run nothing is written, pushed or opened.
C33_WritesOnlyInUpdateMode ==
    Published => (UpdateActive(main_st.comment_body) /\ ~main_st.dry_run)

\* an update run wrote a file and pushed it
C33_Witness ==
    /\ main_fx.written # {} /\ main_fx.pushed /\ main_fx.pr_opened
    /\ UpdateActive(main_st.comment_body) /\ ~main_st.dry_run

\* a review-only run went through the whole of main with a file to update
C33_ReviewOnlyReached ==
    /\ main_st.pc = "done" /\ main_st.files_with_content # <<>>
    /\ ~UpdateActive(main_st.comment_body) /\ ~Published

\* C40: with --dry-run main posts no review comment on any path, including
\* the path where the oracle selects no file and the path where no
\* selected file needs an update.
C40_DryRunPostsNoComment ==
    main_st.dry_run => main_fx.comments = <<>>

\* a dry run in which no selected file needed an update ended without comment
C40_NoUpdatePathReached ==
    /\ main_st.dry_run /\ main_st.pc = "done" /\ main_st.pr_number # "unknown"
    /\ main_st.files_with_content = <<>> /\ main_fx.comments = <<>>

(***************************************************************************)
(* Claims about the digests recorded with an index (SpecBuild)             *)
(***************************************************************************)
\* the digest map of the contents an index text was generated from
DigestsOfSource(text) == [p \in DOMAIN text.from |-> sha256(text.from[p])]

\* the area has an entry and an index document on disk
Recorded(a) == a \in DOMAIN manifestDisk.folders /\ a \in DOMAIN indexDisk

\* C34: the digest recorded in a manifest entry is the digest of the content
\* that was given to the oracle: after a successful area build the stored
\* digest map is that of the file contents the index was generated from,
\* even if a file is modified between the read for the oracle and the write
\* of the entry; an area reported fresh never has an index built from older
\* content.
C34_DigestOfContentGivenToOracle ==
    pc = "idle" =>
        \A a \in Areas :
            Recorded(a) =>
                manifestDisk.folders[a].doc_hashes = DigestsOfSource(indexDisk[a])

\* an area is fresh by its entry while its index document was generated
\* from other content than the tree holds
C34_FreshWithOlderIndex ==
    /\ pc = "idle"
    /\ \E a \in Areas :
          /\ Recorded(a)
          /\ ~folder_needs_reindex(a, manifestDisk)
          /\ \E p \in DOMAIN indexDisk[a].from : indexDisk[a].from[p] # files[p]

(***************************************************************************)
(* Claims about the index files (checked under SpecIndexFiles)             *)
(***************************************************************************)
\* C35: saving and loading index documents round-trips the area name: for
\* every area name a that get_doc_folders can return (one path segment,
\* possibly containing "-") and every text t, after save_index(a, t) the map
\* returned by load_all_indexes has the key a with value t, and
\* load_index(a) returns t.
C35_IndexRoundTrip ==
    idx_log.loaded =>
        /\ idx_log.folder \in DOMAIN idx_log.indexes
        /\ idx_log.indexes[idx_log.folder] = idx_log.text
        /\ idx_log.index = idx_log.text

\* the index of an area with "-" in its name and a one-line text was loaded
\* under another key
C35_DashNameLost ==
    /\ idx_log.loaded /\ idx_log.saves = 1
    /\ idx_log.folder = <<"a", "-">> /\ idx_log.text = <<"A">>
    /\ idx_log.folder \notin DOMAIN idx_log.indexes
    /\ <<"a", "/">> \in DOMAIN idx_log.indexes

\* for a plain name and a text with LF line ends the round trip holds
C35_PlainNameKept ==
    /\ idx_log.loaded /\ idx_log.folder = <<"a", "a">>
    /\ idx_log.text = <<"A", "LF", "B">>
    /\ idx_log.indexes[idx_log.folder] = idx_log.text
    /\ idx_log.index = idx_log.text

(***************************************************************************)
(* Claims about what commit_indexes_to_repo leaves behind and reports      *)
(* (checked under SpecPublish)                                             *)
(***************************************************************************)
\* the branch that was checked out when the call was made
BranchBefore == IF penv.on_base THEN "base" ELSE "pr"

\* C36: after commit_indexes_to_repo returns, on every path (True or False,
\* including a failed commit, checkout or push after the switch to the
\* shared branch), the working directory and the checked-out branch are
\* those in effect before the call and the changes it stashed are restored.
C36_CallerStateRestored ==
    PubDone =>
        /\ pub.cwd = "orig"
        /\ pub.branch = BranchBefore
        /\ ~pub.stashed

\* the call returned False after a failed push, on the shared branch, with
\* the caller's changes still in the stash
C36_LeftOnBaseBranch ==
    /\ PubDone /\ pub.ret = "False" /\ pub.failed = {"push"}
    /\ BranchBefore = "pr" /\ pub.branch = "base" /\ pub.stashed
    /\ pub.cwd = "orig"

\* C37: commit_indexes_to_repo returns True if and only if the push of the
\* cache commit to the shared branch succeeded; whenever it returns False
\* nothing was pushed to the shared branch in that call.
C37_ReturnReportsPush ==
    PubDone => (pub.ret = "True" <=> pub.pushed)

\* the push succeeded, the checkout of the original branch failed, and the
\* call returned False
C37_PushedReportedFalse ==
    /\ PubDone /\ pub.pushed /\ pub.pushed_files # {}
    /\ pub.failed = {"checkout"} /\ pub.ret = "False"

\* every git command of the call succeeded and no file copy failed
AllCommandsSucceeded ==
    /\ pub.ignored = {}
    /\ pub.failed \cap {"add", "commit", "rev-parse", "checkout", "push", "copy"} = {}

\* the call found changes under the cache directory and an up-to-date branch
UpToDateWithChanges ==
    /\ pub.status_seen /\ pub.status_stdout # {} /\ pub.status_stdout = penv.changed
    /\ pub.compared = "obtained" /\ ~penv.diverged

\* C38: when the local branch is up to date with the shared branch, cache
\* changes exist and every git command succeeds, commit_indexes_to_repo
\* reaches the push and returns True, with DOCS_SUBFOLDER set or unset and
\* whether or not the current branch is the shared branch.
C38_UpToDatePublishes ==
    (PubDone /\ UpToDateWithChanges /\ AllCommandsSucceeded)
        => (pub.pushed /\ pub.ret = "True")

\* without DOCS_SUBFOLDER, on a pull-request branch: the call ended before
\* the push although no command failed
C38_SeparateRepoNotPublished ==
    /\ PubDone /\ UpToDateWithChanges /\ AllCommandsSucceeded
    /\ ~penv.docs_subfolder /\ ~penv.on_base
    /\ pub.commits = 1 /\ ~pub.pushed /\ pub.ret = "False"

\* with DOCS_SUBFOLDER set the same call publishes
C38_SameRepoPublished ==
    /\ PubDone /\ UpToDateWithChanges /\ AllCommandsSucceeded
    /\ penv.docs_subfolder /\ ~penv.on_base
    /\ pub.pushed /\ pub.ret = "True"

\* a publication of chosen summaries under divergence
SelectivePublication ==
    /\ pub.pushed /\ ~pub.add_all /\ pub.content_type = "summaries"
    /\ pub.compared = "obtained" /\ penv.diverged

\* the documents that have an entry in the summaries manifest file; the
\* file is committed as a whole
EntriesPublished ==
    IF SummariesManifestFile \in pub.pushed_files
    THEN {d \in Docs : sumEntry[d] # "none"}
    ELSE {}

\* C39: under divergence with content_type "summaries", every entry of the
\* summaries manifest that is committed to the shared branch refers to a
\* summary that was itself judged safe and committed in the same
\* publication; no entry of a withheld summary is published, and no index
\* document or folder manifest is committed.
C39_SelectivePublicationConsistent ==
    SelectivePublication =>
        /\ \A d \in EntriesPublished : SummaryFile(d) \in pub.files_to_add
        /\ IndexFile \notin pub.pushed_files

\* the manifest was pushed with the entry of a summary that was withheld
C39_WithheldEntryPublished ==
    /\ SelectivePublication
    /\ SummariesManifestFile \in pub.pushed_files
    /\ SummaryFile("d1") \in pub.pushed_files
    /\ SummaryFile("d2") \notin pub.files_to_add
    /\ sumEntry["d2"] = "entry"
    /\ IndexFile \notin pub.pushed_files

====
